---- MODULE Spec2Model ----
(***************************************************************************)
(* Image-hack: the frame store (useFrameStore), its undo/redo history      *)
(* (useHistoryStore) and the canvas reconciliation effects of              *)
(* InfiniteCanvas, as a state machine.                                     *)
(*                                                                         *)
(* Ids produced by nanoid() are the naturals 1, 2, ... taken from nextId.  *)
(* A Frame is [id, x, y, layers]; a Layer is                               *)
(* [id, type, visible, locked, x, y, width, height, imageUrl, children].   *)
(* imageUrl is "img" (a url), "undefined" (the key is present and holds    *)
(* undefined, as addLayer leaves it for a layer made without a url) or     *)
(* "absent" (no such key).  children is <<>> for a layer without children. *)
(***************************************************************************)
EXTENDS Integers, Sequences, FiniteSets, TLC

VARIABLES
    frames,            \* useFrameStore.frames
    selectedFrameId,   \* useFrameStore.selectedFrameId (NoId = null)
    selectedLayerIds,  \* useFrameStore.selectedLayerIds
    past,              \* useHistoryStore.past
    future,            \* useHistoryStore.future
    nextId,            \* the next id nanoid() hands out
    objects,           \* canvas._objects, the engine's draw list
    raf,               \* the layer effect's scheduled animation-frame callback
    passes,            \* layer passes suspended in `await createLayerObject`
    crashed,           \* an effect threw: the component tree is gone
    fabricCanvas,      \* useCanvasStore.fabricCanvas: "null" until mounted
    last,              \* the last call: its name, how it ended, what it set
    nStruct,           \* number of structural calls made
    nEdit,             \* number of non-history calls that set frames
    nUndo,             \* number of undo calls, counted where the run bounds them
    run,               \* the budgets of this run (fixed at Init)
    script,            \* where the run stands in "n actions, n undos, n redos"
    pushLog,           \* every snapshot handed to pushState, in order
    deletedFrame,      \* the Frame the last store call removed, when that
                       \* call was deleteFrame (NoFrame otherwise)
    churn,             \* objects the last step created and removed
    cancelSignal,      \* params.cancelSignal.cancelled
    onProgress,        \* params.onProgress was supplied (setGenerationAttempt)
    pc,                \* where generateImage stands: "idle", "call",
                       \* "verify" (awaiting verifyImageLoads), "backoff"
                       \* (awaiting the retry delay) or "done"
    attempt,           \* the loop variable of generateImage, from 0
    timerMs,           \* the delay of the timer generateImage waits on
    lastError,         \* the error caught last (NoError = null)
    result,            \* how the promise of generateImage stands
    generationAttempt, \* useAIStore.generationAttempt
    reports,           \* number of calls made to params.onProgress
    attempts,          \* how each verifyImageLoads call so far has ended
    cancelledAt,       \* the attempts made and the pc when the flag was set
    togetherKey,       \* VITE_TOGETHER_API_KEY is set
    hfInpainting,      \* the HuggingFaceProvider built in has generateInpainting
    currentProviderName, \* AIService.currentProviderName
    lastSwitch,        \* the last setProvider call and what it returned
    inpaint,           \* the last generateInpainting call: its promise, what
                       \* supportsInpainting() said, the provider methods it
                       \* invoked
    isGenerating,      \* useAIStore.isGenerating
    aiError,           \* useAIStore.error ("null" = null)
    inFlight,          \* the handleGenerate calls awaiting generateImage: the
                       \* frame each one's closure holds
    nGenerate,         \* number of handleGenerate calls made
    finished,          \* how each handleGenerate call that has finished
                       \* ended, in the order they finished
    activeObject,      \* the engine's active object (its oid; NoId = none)
    commit,            \* the render React has committed whose effects have
                       \* not run yet, and which dependencies changed
    bridge             \* what the effects have done since the last selection
                       \* call of the side panels

storeVars  == <<frames, selectedFrameId, selectedLayerIds, past, future, nextId>>
canvasVars == <<objects, raf, passes, crashed, churn, fabricCanvas>>
ghostVars  == <<last, nStruct, nEdit, nUndo, run, script, pushLog,
                deletedFrame>>
vars == <<frames, selectedFrameId, selectedLayerIds, past, future, nextId,
          objects, raf, passes, crashed, fabricCanvas, last, nStruct, nEdit,
          nUndo, run, script, pushLog, deletedFrame, churn, cancelSignal, onProgress, pc,
          attempt, timerMs, lastError, result, generationAttempt, reports,
          attempts, cancelledAt, togetherKey, hfInpainting,
          currentProviderName, lastSwitch, inpaint, isGenerating, aiError,
          inFlight, nGenerate, finished, activeObject, commit, bridge>>
genVars == <<cancelSignal, onProgress, pc, attempt, timerMs, lastError, result,
             generationAttempt, reports, attempts, cancelledAt>>
serviceVars == <<togetherKey, hfInpainting, currentProviderName, lastSwitch,
                 inpaint>>
dialogVars == <<isGenerating, aiError, inFlight, nGenerate, finished>>
bridgeVars == <<activeObject, commit, bridge>>
aiVars == <<genVars, serviceVars, dialogVars, bridgeVars>>

----------------------------------------------------------------------------
(* Program constants and bounds *)

MAX_HISTORY_SIZE == 50

DefaultFrameXY == 100

\* preset?.width || 1920, preset?.height || 1080
DefaultFrameWidth == 1920

DefaultFrameHeight == 1080

\* the frame object's background Rect is stroked, and its labels sit above it
StrokeWidth == 2

LabelRise == 24

\* scale factors are held in hundredths: ScaleUnit is the scale 1
ScaleUnit == 100

DuplicateOffset == 50

DefaultLayerSize == 100

\* structural calls per run of Spec
MaxStruct == 2

\* structural calls per run of SpecHistory: enough to overfill the history
MaxPushes == 60

\* structural and other calls per run of SpecCanvas
MaxCanvasStruct == 3

MaxCanvasEdit == 1

\* layers per frame in SpecCanvas
MaxCanvasLayers == 1

\* structural calls per scripted run (SpecRoundTrip)
MaxScript == 3

\* frame-setting calls that push no history, per run of Spec
MaxEdit == 1

\* Frames in the document, Layers at the top level of a Frame
MaxFrames == 2

MaxLayers == 3

NoId == 0

\* an id that names no Frame and no Layer
BadId == NoId - 1

NoFrame == [id |-> NoId]

NoLayer == [id |-> NoId]

----------------------------------------------------------------------------
(* Sequence helpers (Array.prototype) *)

Min(a, b) == IF a < b THEN a ELSE b

Max(a, b) == IF a > b THEN a ELSE b

SeqToSet(s) == {s[i] : i \in 1..Len(s)}

RECURSIVE SeqMin(_)
SeqMin(s) == IF Len(s) = 1 THEN s[1] ELSE Min(s[1], SeqMin(Tail(s)))

RECURSIVE SeqMax(_)
SeqMax(s) == IF Len(s) = 1 THEN s[1] ELSE Max(s[1], SeqMax(Tail(s)))

\* findIndex, 0-based, -1 when nothing matches
RECURSIVE FindIndexFrom(_, _, _)
FindIndexFrom(ids, id, i) ==
    IF i > Len(ids) THEN -1
    ELSE IF ids[i] = id THEN i - 1
    ELSE FindIndexFrom(ids, id, i + 1)

FindIndex(ids, id) == FindIndexFrom(ids, id, 1)

\* the start index Array.prototype.splice uses: a negative start counts from
\* the end, a start past the end is the end
SpliceStart(len, start) ==
    IF start < 0 THEN Max(len + start, 0) ELSE Min(start, len)

\* arr.splice(start, deleteCount, ...items) on a copy of arr
Splice(arr, start, deleteCount, items) ==
    LET s == SpliceStart(Len(arr), start)
        d == Min(Max(deleteCount, 0), Len(arr) - s)
    IN  SubSeq(arr, 1, s) \o items \o SubSeq(arr, s + d + 1, Len(arr))

Ids(s) == [i \in 1..Len(s) |-> s[i].id]

----------------------------------------------------------------------------
(* Read accessors of useFrameStore *)

RECURSIVE FindFrame(_, _)
FindFrame(fs, frameId) ==
    IF fs = <<>> THEN NoFrame
    ELSE IF Head(fs).id = frameId THEN Head(fs)
    ELSE FindFrame(Tail(fs), frameId)

\* a lookup that falls back on the first Frame when the id names none
getFrameOrFirst(frameId) ==
    IF FindFrame(frames, frameId) = NoFrame /\ frames # <<>> THEN frames[1]
    ELSE FindFrame(frames, frameId)

getFrame(frameId) == FindFrame(frames, frameId)

\* frame.layers.find(l => l.id === id): top level only
RECURSIVE FindTop(_, _)
FindTop(layers, layerId) ==
    IF layers = <<>> THEN NoLayer
    ELSE IF Head(layers).id = layerId THEN Head(layers)
    ELSE FindTop(Tail(layers), layerId)

\* getLayer's findLayer: depth first, into the children of groups
RECURSIVE findLayer(_, _)
findLayer(layers, layerId) ==
    IF layers = <<>> THEN NoLayer
    ELSE LET l == Head(layers) IN
         IF l.id = layerId THEN l
         ELSE LET found == findLayer(l.children, layerId) IN
              IF found # NoLayer THEN found
              ELSE findLayer(Tail(layers), layerId)

getLayer(frameId, layerId) ==
    LET frame == getFrame(frameId) IN
    IF frame = NoFrame THEN NoLayer ELSE findLayer(frame.layers, layerId)

FrameIds == SeqToSet(Ids(frames))

RECURSIVE AllLayerIdsOf(_)
AllLayerIdsOf(layers) ==
    IF layers = <<>> THEN {}
    ELSE {Head(layers).id} \cup AllLayerIdsOf(Head(layers).children)
         \cup AllLayerIdsOf(Tail(layers))

\* frames.map(f => f.id === frameId ? g(f) : f)
MapFrame(fs, frameId, g) ==
    [i \in 1..Len(fs) |-> IF fs[i].id = frameId THEN g[fs[i]] ELSE fs[i]]

----------------------------------------------------------------------------
(* useHistoryStore *)

\* JSON.parse(JSON.stringify(x)): a key holding undefined is dropped; numbers,
\* strings, booleans and arrays come back as they were
RECURSIVE JsonCloneLayers(_)
JsonCloneLayers(layers) ==
    [i \in 1..Len(layers) |->
        [layers[i] EXCEPT
            !.imageUrl = IF @ = "undefined" THEN "absent" ELSE @,
            !.children = JsonCloneLayers(@)]]

JsonClone(fs) ==
    [i \in 1..Len(fs) |-> [fs[i] EXCEPT !.layers = JsonCloneLayers(@)]]

\* pushState(frames): the new past and future
PushPastUncapped(p, fs) == Append(p, JsonClone(fs))

PushPastTwice(p, fs) == Append(Append(p, JsonClone(fs)), JsonClone(fs))

PushPast(p, fs) ==
    LET newPast == Append(p, JsonClone(fs)) IN
    IF Len(newPast) > MAX_HISTORY_SIZE THEN Tail(newPast) ELSE newPast

PushFutureKept(f) == f

PushFuture(f) == <<>>

\* history undo(currentFrames), past non-empty
UndoPast(p) == SubSeq(p, 1, Len(p) - 1)

UndoFutureDropsCurrent(f, currentFrames) == f

UndoFuture(f, currentFrames) == <<JsonClone(currentFrames)>> \o f

UndoResult(p) == p[Len(p)]

\* history redo(), future non-empty
RedoPast(p, f) == Append(p, JsonClone(f[1]))

\* a redo that leaves the entry it returns in future
RedoFutureKept(f) == f

RedoFuture(f) == Tail(f)

RedoResult(f) == f[1]

----------------------------------------------------------------------------
(* Canvas read accessors (fabricHelpers) *)

\* a Render Object: [frameId, layerId (NoId on a frame object), visible,
\* left, top]
NoObject == [frameId |-> NoId, layerId |-> NoId]

\* objects.find(obj => obj.frameId === frameId) || null
RECURSIVE getFrameFromCanvas(_, _)
getFrameFromCanvas(objs, frameId) ==
    IF objs = <<>> THEN NoObject
    ELSE IF Head(objs).frameId = frameId THEN Head(objs)
    ELSE getFrameFromCanvas(Tail(objs), frameId)

\* objects.find(obj => obj.layerId === layerId) || null
RECURSIVE getLayerFromCanvas(_, _)
getLayerFromCanvas(objs, layerId) ==
    IF objs = <<>> THEN NoObject
    ELSE IF Head(objs).layerId = layerId THEN Head(objs)
    ELSE getLayerFromCanvas(Tail(objs), layerId)

\* canvas.remove(obj): the first occurrence of obj leaves the draw list
RECURSIVE RemoveObject(_, _)
RemoveObject(objs, obj) ==
    IF objs = <<>> THEN <<>>
    ELSE IF Head(objs) = obj THEN Tail(objs)
    ELSE <<Head(objs)>> \o RemoveObject(Tail(objs), obj)

removeLayerFromCanvas(objs, layerId) ==
    LET layerObj == getLayerFromCanvas(objs, layerId) IN
    IF layerObj # NoObject THEN RemoveObject(objs, layerObj) ELSE objs

removeFrameFromCanvas(objs, frameId) ==
    LET frameObject == getFrameFromCanvas(objs, frameId) IN
    IF frameObject # NoObject THEN RemoveObject(objs, frameObject) ELSE objs

----------------------------------------------------------------------------
(* Bookkeeping shared by the store actions *)

Structural == {"addFrame", "deleteFrame", "duplicateFrame", "addLayer",
               "deleteLayer", "groupLayers", "ungroupLayers"}

Edits == {"updateFrame", "updateLayer", "reorderLayers",
          "toggleLayerVisibility", "toggleLayerLock"}

Selects == {"selectFrame", "selectLayers", "selection:created",
            "selection:updated", "selection:cleared", "mouse:down"}

\* the events of a gesture in progress
Gestures == {"object:moving", "object:modified"}

\* res: "ok" returned normally, "threw" ended by throwing, "noop" returned
\* early without setting anything.  pushed: the call reached pushState.
\* setFrames / setLayers: the call handed a new frames / selectedLayerIds
\* array to set().
\* hadFuture: the call found a redo entry waiting.
Call(op, res, pushed, setFrames, setLayers) ==
    [op |-> op, res |-> res, pushed |-> pushed,
     setFrames |-> setFrames, setLayers |-> setLayers,
     hadFuture |-> future # <<>>]

\* a scripted run makes its structural calls first, then its undos, then its
\* redos, then at most one more undo
CanStruct ==
    /\ ~crashed
    /\ nStruct < run.struct
    /\ run.script => script.phase = "act"

CanEdit == ~crashed /\ nEdit < run.edit

CanSelect == ~crashed /\ nEdit < run.edit

CanUndo ==
    /\ ~crashed
    /\ run.undo >= 0 => nUndo < run.undo
    /\ run.script => \/ script.phase = "act" /\ script.n > 0
                     \/ script.phase = "undo" /\ script.k < script.n
                     \/ script.phase = "redo"

CanRedo ==
    /\ ~crashed
    /\ run.script => \/ script.phase = "undo" /\ script.k = script.n
                     \/ script.phase = "redo" /\ script.k < script.n

\* the position of a scripted run: n structural calls A1..An made from
\* `base`, leaving `final`; then k undos; then k redos; then one undo ("back")
\* made from the frames `preRedo` that the last redo found
NextScript(sc, call, before, after) ==
    IF call.op \in Structural THEN [sc EXCEPT !.n = @ + 1, !.final = after]
    ELSE IF call.op = "undo" THEN
        IF sc.phase = "act" THEN [sc EXCEPT !.phase = "undo", !.k = 1]
        ELSE IF sc.phase = "undo" THEN [sc EXCEPT !.k = @ + 1]
        ELSE [sc EXCEPT !.phase = "back"]
    ELSE IF call.op = "redo" THEN
        IF sc.phase = "undo"
        THEN [sc EXCEPT !.phase = "redo", !.k = 1, !.preRedo = before]
        ELSE [sc EXCEPT !.k = @ + 1, !.preRedo = before]
    ELSE sc

Track ==
    /\ nStruct' = IF last'.op \in Structural THEN nStruct + 1 ELSE nStruct
    /\ nEdit' = IF last'.op \in Edits \cup Selects \cup Gestures
                THEN nEdit + 1 ELSE nEdit
    /\ nUndo' = IF last'.op = "undo" /\ run.undo >= 0 THEN nUndo + 1 ELSE nUndo
    /\ script' = IF run.script
                 THEN NextScript(script, last', frames, frames')
                 ELSE script
    /\ pushLog' = IF ~run.log THEN pushLog
                  ELSE IF last'.op \in {"undo", "redo"}
                  THEN [pure |-> FALSE, log |-> <<>>]
                  ELSE IF pushLog.pure /\ last'.pushed
                  THEN [pushLog EXCEPT !.log = Append(@, frames)]
                  ELSE pushLog
    /\ deletedFrame' =
          IF last'.op # "deleteFrame" THEN NoFrame
          ELSE LET gone == SelectSeq(frames, LAMBDA f :
                               f.id \notin SeqToSet(Ids(frames')))
               IN  IF gone = <<>> THEN NoFrame ELSE gone[1]
    /\ run' = run
    /\ UNCHANGED aiVars

----------------------------------------------------------------------------
(* InfiniteCanvas: the effects that reconcile the canvas with the store *)

\* a Render Object is [oid, frameId, layerId, visible, left, top]: oid stands
\* for the object's identity, and layerId is NoId on a frame object
FreshOid(objs) == SeqMax([i \in 1..Len(objs) |-> objs[i].oid] \o <<0>>) + 1

\* the distinct members of a sequence, in order of first occurrence
RECURSIVE Distinct(_)
Distinct(q) ==
    IF q = <<>> THEN <<>>
    ELSE LET d == Distinct(SubSeq(q, 1, Len(q) - 1)) IN
         IF q[Len(q)] \in SeqToSet(d) THEN d ELSE Append(d, q[Len(q)])

\* identities carry no meaning beyond telling objects apart: they are
\* renumbered in draw order
Canon(objs) ==
    LET order == Distinct([i \in 1..Len(objs) |-> objs[i].oid]) IN
    [i \in 1..Len(objs) |-> [objs[i] EXCEPT !.oid = FindIndex(order, @) + 1]]

\* new Group([background, label, dimensions]): a Group is as wide and as high
\* as the box around its members, the stroked background (from 0 to its size
\* plus the stroke) and the labels above it (from -24); the labels are taken
\* to be narrower than the Frame
GroupWidth(frame) == frame.width + StrokeWidth

GroupHeight(frame) == frame.height + StrokeWidth + LabelRise

createFrameObject(oid, frame) ==
    [oid |-> oid, frameId |-> frame.id, layerId |-> NoId, visible |-> TRUE,
     left |-> frame.x, top |-> frame.y,
     width |-> GroupWidth(frame), height |-> GroupHeight(frame),
     scaleX |-> ScaleUnit, scaleY |-> ScaleUnit]

\* what createLayerObject resolves to once the image has loaded
createLayerObject(oid, layer, frame) ==
    [oid |-> oid, frameId |-> frame.id, layerId |-> layer.id,
     visible |-> layer.visible, left |-> frame.x + layer.x,
     top |-> frame.y + layer.y]

\* updateFrameObject(frameObject, frame): a frame object is a Group and is
\* updated in place; the function returns nothing.  Any other object has no
\* getObjects, and the call throws a TypeError.
updateFrameObjectThrows(frameObject) == frameObject.layerId # NoId

updateFrameObject == FALSE

\* the canvas while an effect runs: the draw list, whether the effect threw,
\* and how many objects it has added and removed
Canvas(objs) == [objs |-> objs, crashed |-> FALSE, created |-> 0, removed |-> 0]

\* useEffect "render frames", frames.forEach from the i-th frame on
RECURSIVE RenderFrames(_, _, _, _)
RenderFrames(cv, fs, i, canvasFrameIds) ==
    IF i > Len(fs) \/ cv.crashed THEN cv
    ELSE LET frame == fs[i]
             frameObject == getFrameFromCanvas(cv.objs, frame.id)
             newFrameObject == createFrameObject(FreshOid(cv.objs), frame)
         IN
         IF frame.id \notin canvasFrameIds
         THEN RenderFrames([cv EXCEPT !.objs = Append(@, newFrameObject),
                                      !.created = @ + 1],
                           fs, i + 1, canvasFrameIds)
         ELSE IF frameObject = NoObject
         THEN RenderFrames(cv, fs, i + 1, canvasFrameIds)
         ELSE IF updateFrameObjectThrows(frameObject)
         THEN [cv EXCEPT !.crashed = TRUE]
         ELSE IF ~updateFrameObject
         THEN RenderFrames(
                  [cv EXCEPT !.objs = Append(RemoveObject(@, frameObject),
                                             newFrameObject),
                             !.created = @ + 1, !.removed = @ + 1],
                  fs, i + 1, canvasFrameIds)
         ELSE RenderFrames(
                  [cv EXCEPT !.objs =
                      [j \in 1..Len(@) |->
                          IF @[j] = frameObject
                          THEN [frameObject EXCEPT !.left = frame.x,
                                                   !.top = frame.y]
                          ELSE @[j]]],
                  fs, i + 1, canvasFrameIds)

\* useEffect "render frames", canvasFrameIds.forEach: frames that left the store
RECURSIVE RemoveDeletedFrames(_, _)
RemoveDeletedFrames(cv, frameIds) ==
    IF frameIds = {} THEN cv
    ELSE LET frameId == CHOOSE id \in frameIds : TRUE
             objs == removeFrameFromCanvas(cv.objs, frameId)
         IN  RemoveDeletedFrames(
                 [cv EXCEPT !.objs = objs,
                            !.removed = @ + Len(cv.objs) - Len(objs)],
                 frameIds \ {frameId})

\* useEffect "render frames", deps [frames, selectedFrameId]
RenderFramesEffect(cv, fs) ==
    LET canvasFrameIds == {cv.objs[i].frameId : i \in 1..Len(cv.objs)}
        storeFrameIds == SeqToSet(Ids(fs))
        rendered == RenderFrames(cv, fs, 1, canvasFrameIds)
    IN  IF rendered.crashed THEN rendered
        ELSE RemoveDeletedFrames(rendered, canvasFrameIds \ storeFrameIds)

\* enforceZOrder(canvas, currentFrames)
enforceZOrder(objs, currentFrames) ==
    LET Found(q) == SelectSeq(q, LAMBDA o : o # NoObject)
        frameObjs == Found([i \in 1..Len(currentFrames) |->
                        getFrameFromCanvas(objs, currentFrames[i].id)])
        LayerObjs(frame) == Found([j \in 1..Len(frame.layers) |->
                        getLayerFromCanvas(objs, frame.layers[j].id)])
        RECURSIVE AllLayerObjs(_)
        AllLayerObjs(i) ==
            IF i > Len(currentFrames) THEN <<>>
            ELSE LayerObjs(currentFrames[i]) \o AllLayerObjs(i + 1)
        orderedObjects == frameObjs \o AllLayerObjs(1)
    IN  IF Len(orderedObjects) = Len(objs) THEN orderedObjects ELSE objs

\* no pass is waiting for its animation frame or for an image
Reconciled == ~crashed /\ raf = <<>> /\ passes = <<>>

\* the step leaves the Document Model and the selection as they were
NoChange ==
    /\ frames' = frames
    /\ selectedFrameId' = selectedFrameId
    /\ selectedLayerIds' = selectedLayerIds

\* what follows every store call: the bookkeeping and, with a canvas mounted,
\* the re-render and the effects whose dependencies changed, in the order the
\* component declares them.  objs is the draw list the call itself left.
After(objs) ==
    /\ Track
    /\ UNCHANGED fabricCanvas
    /\ IF fabricCanvas = "null"
       THEN UNCHANGED <<objects, raf, passes, crashed, churn>>
       ELSE LET framesDep == last'.setFrames
                selectedFrameDep == selectedFrameId' # selectedFrameId
                layersDep == last'.setLayers
                rendered == IF framesDep \/ selectedFrameDep
                            THEN RenderFramesEffect(Canvas(objs), frames')
                            ELSE Canvas(objs)
            IN
            IF rendered.crashed
            THEN /\ crashed' = TRUE
                 /\ objects' = Canon(rendered.objs)
                 /\ raf' = <<>>
                 /\ passes' = <<>>
                 /\ churn' = [created |-> rendered.created,
                              removed |-> rendered.removed]
            ELSE /\ crashed' = FALSE
                 /\ raf' = IF framesDep \/ layersDep
                           THEN <<[frames |-> frames',
                                   again |-> Reconciled /\ NoChange]>>
                           ELSE raf
                 /\ objects' = Canon(IF framesDep
                                     THEN enforceZOrder(rendered.objs, frames')
                                     ELSE rendered.objs)
                 /\ passes' = passes
                 /\ churn' = [created |-> rendered.created,
                              removed |-> rendered.removed]

\* a pass is [frames, again]: the frames its closure holds, and whether it was
\* requested by a call that changed nothing, made with the canvas reconciled.
\* The requestAnimationFrame callback of useEffect "render layers", up to its
\* first await: visibility, removal of objects whose layer left the store, and
\* the layers that get an object created
PassQueue(fs, canvasLayerIds) ==
    LET RECURSIVE OfFrames(_)
        OfFrames(i) ==
            IF i > Len(fs) THEN <<>>
            ELSE [j \in 1..Len(SelectSeq(fs[i].layers, LAMBDA l :
                        /\ l.id \notin canvasLayerIds
                        /\ l.type \in {"image", "ai-generated"}
                        /\ l.imageUrl = "img")) |->
                     [frame |-> fs[i],
                      layer |-> SelectSeq(fs[i].layers, LAMBDA l :
                        /\ l.id \notin canvasLayerIds
                        /\ l.type \in {"image", "ai-generated"}
                        /\ l.imageUrl = "img")[j]]]
                 \o OfFrames(i + 1)
    IN  OfFrames(1)

TopLayers(fs) ==
    LET RECURSIVE OfFrames(_)
        OfFrames(i) == IF i > Len(fs) THEN <<>>
                       ELSE fs[i].layers \o OfFrames(i + 1)
    IN  OfFrames(1)

RafFire ==
    /\ ~crashed
    /\ raf # <<>>
    /\ LET fs == raf[1].frames
           layers == TopLayers(fs)
           storeLayerIds == SeqToSet(Ids(layers))
           canvasLayerIds == {objects[i].layerId : i \in 1..Len(objects)}
                                 \ {NoId}
           kept == SelectSeq(objects, LAMBDA o :
                       o.layerId = NoId \/ o.layerId \in storeLayerIds)
           shown == [i \in 1..Len(kept) |->
                        IF kept[i].layerId = NoId THEN kept[i]
                        ELSE [kept[i] EXCEPT !.visible =
                                 FindTop(layers, kept[i].layerId).visible]]
           queue == PassQueue(fs, canvasLayerIds)
       IN
       /\ objects' = Canon(shown)
       /\ passes' = IF queue = <<>> THEN passes ELSE Append(passes, queue)
       /\ churn' = [created |-> 0, removed |-> Len(objects) - Len(kept)]
    /\ raf' = <<>>
    /\ last' = Call("raf", "ok", FALSE, FALSE, FALSE)
    /\ UNCHANGED <<storeVars, crashed, fabricCanvas>>
    /\ UNCHANGED <<nStruct, nEdit, nUndo, run, script, pushLog, deletedFrame>>
    /\ UNCHANGED aiVars

\* the image of the layer a pass is waiting for has loaded: the awaiting pass
\* adds the object and goes on to its next layer
PassStep(p) ==
    /\ ~crashed
    /\ p \in 1..Len(passes)
    /\ LET queue == passes[p]
           layerObj == createLayerObject(FreshOid(objects), queue[1].layer,
                                         queue[1].frame)
       IN
       /\ objects' = Canon(Append(objects, layerObj))
       /\ passes' = IF Len(queue) = 1
                    THEN SubSeq(passes, 1, p - 1)
                         \o SubSeq(passes, p + 1, Len(passes))
                    ELSE [passes EXCEPT ![p] = Tail(queue)]
    /\ churn' = [created |-> 1, removed |-> 0]
    /\ last' = Call("load", "ok", FALSE, FALSE, FALSE)
    /\ UNCHANGED <<storeVars, raf, crashed, fabricCanvas>>
    /\ UNCHANGED <<nStruct, nEdit, nUndo, run, script, pushLog, deletedFrame>>
    /\ UNCHANGED aiVars

----------------------------------------------------------------------------
(* useFrameStore: Frame actions *)

NewFrame(frameId) ==
    [id |-> frameId, x |-> DefaultFrameXY, y |-> DefaultFrameXY,
     width |-> DefaultFrameWidth, height |-> DefaultFrameHeight,
     layers |-> <<>>]

AddFrame ==
    /\ CanStruct
    /\ Len(frames) < run.frames
    /\ past' = PushPast(past, frames)
    /\ future' = PushFuture(future)
    /\ frames' = Append(frames, NewFrame(nextId))
    /\ selectedFrameId' = nextId
    /\ nextId' = nextId + 1
    /\ UNCHANGED selectedLayerIds
    /\ last' = Call("addFrame", "ok", TRUE, TRUE, FALSE)
    /\ After(objects)

DeleteFrame(frameId) ==
    /\ CanStruct
    /\ past' = PushPast(past, frames)
    /\ future' = PushFuture(future)
    /\ LET wasSelected == selectedFrameId = frameId IN
       /\ frames' = SelectSeq(frames, LAMBDA f : f.id # frameId)
       /\ selectedFrameId' = IF wasSelected THEN NoId ELSE selectedFrameId
       /\ selectedLayerIds' = IF wasSelected THEN <<>> ELSE selectedLayerIds
       /\ last' = Call("deleteFrame", "ok", TRUE, TRUE, wasSelected)
    /\ UNCHANGED nextId
    /\ After(objects)

\* { ...f, ...updates }
Merge(rec, updates) ==
    [k \in DOMAIN rec |-> IF k \in DOMAIN updates THEN updates[k] ELSE rec[k]]

UpdateFramePushes(frameId, updates) ==
    /\ CanEdit
    /\ past' = PushPast(past, frames)
    /\ future' = PushFuture(future)
    /\ frames' = MapFrame(frames, frameId,
                          [f \in SeqToSet(frames) |-> Merge(f, updates)])
    /\ UNCHANGED <<selectedFrameId, selectedLayerIds, nextId>>
    /\ last' = Call("updateFrame", "ok", FALSE, TRUE, FALSE)
    /\ After(objects)

UpdateFrame(frameId, updates) ==
    /\ CanEdit
    /\ frames' = MapFrame(frames, frameId,
                          [f \in SeqToSet(frames) |-> Merge(f, updates)])
    /\ UNCHANGED <<selectedFrameId, selectedLayerIds, past, future, nextId>>
    /\ last' = Call("updateFrame", "ok", FALSE, TRUE, FALSE)
    /\ After(objects)

SelectFrame(frameId) ==
    /\ CanSelect
    /\ selectedFrameId' =
          IF frameId # NoId /\ getFrame(frameId) = NoFrame THEN NoId ELSE frameId
    /\ selectedLayerIds' = <<>>
    /\ UNCHANGED <<frames, past, future, nextId>>
    /\ last' = Call("selectFrame", "ok", FALSE, FALSE, TRUE)
    /\ After(objects)

\* frame.layers.map(layer => ({ ...layer, id: nanoid() })): fresh ids at top
\* level, the children of a group are carried over as they are
RenumberLayers(layers, firstId) ==
    [i \in 1..Len(layers) |-> [layers[i] EXCEPT !.id = firstId + i - 1]]

DuplicateFrame(frameId) ==
    /\ CanStruct
    /\ LET frame == getFrame(frameId) IN
       IF frame = NoFrame
       THEN /\ UNCHANGED storeVars
            /\ last' = Call("duplicateFrame", "noop", FALSE, FALSE, FALSE)
       ELSE /\ Len(frames) < run.frames
            /\ past' = PushPast(past, frames)
            /\ future' = PushFuture(future)
            /\ frames' = Append(frames,
                   [frame EXCEPT !.id = nextId,
                                 !.x = @ + DuplicateOffset,
                                 !.y = @ + DuplicateOffset,
                                 !.layers = RenumberLayers(@, nextId + 1)])
            /\ selectedFrameId' = nextId
            /\ nextId' = nextId + 1 + Len(frame.layers)
            /\ UNCHANGED selectedLayerIds
            /\ last' = Call("duplicateFrame", "ok", TRUE, TRUE, FALSE)
    /\ After(objects)

----------------------------------------------------------------------------
(* useFrameStore: Layer actions *)

\* the layerData a caller passes: an imported or generated image carries a
\* url, a drawing layer carries none
LayerInputs ==
    { [type |-> "image", imageUrl |-> "img", x |-> 10, y |-> 20],
      [type |-> "sketch", imageUrl |-> "undefined", x |-> 50, y |-> 60] }

NewLayer(layerId, layerData) ==
    [id |-> layerId, type |-> layerData.type, visible |-> TRUE,
     locked |-> FALSE, x |-> layerData.x, y |-> layerData.y,
     width |-> DefaultLayerSize, height |-> DefaultLayerSize,
     imageUrl |-> layerData.imageUrl, children |-> <<>>]

AddLayer(frameId, layerData) ==
    /\ CanStruct
    /\ LET frame == getFrame(frameId) IN
       IF frame = NoFrame
       THEN /\ UNCHANGED storeVars
            /\ last' = Call("addLayer", "threw", FALSE, FALSE, FALSE)
       ELSE /\ Len(frame.layers) < run.layers
            /\ past' = PushPast(past, frames)
            /\ future' = PushFuture(future)
            /\ frames' = MapFrame(frames, frameId, [f \in SeqToSet(frames) |->
                   [f EXCEPT !.layers = Append(@, NewLayer(nextId, layerData))]])
            /\ selectedLayerIds' = <<nextId>>
            /\ nextId' = nextId + 1
            /\ UNCHANGED selectedFrameId
            /\ last' = Call("addLayer", "ok", TRUE, TRUE, TRUE)
    /\ After(objects)

DeleteLayer(frameId, layerId) ==
    /\ CanStruct
    /\ IF getFrame(frameId) = NoFrame \/ getLayer(frameId, layerId) = NoLayer
       THEN /\ UNCHANGED storeVars
            /\ last' = Call("deleteLayer", "threw", FALSE, FALSE, FALSE)
            /\ After(objects)
       ELSE /\ past' = PushPast(past, frames)
            /\ future' = PushFuture(future)
            /\ frames' = MapFrame(frames, frameId, [f \in SeqToSet(frames) |->
                   [f EXCEPT !.layers = SelectSeq(@, LAMBDA l : l.id # layerId)]])
            /\ selectedLayerIds' =
                   SelectSeq(selectedLayerIds, LAMBDA id : id # layerId)
            /\ UNCHANGED <<selectedFrameId, nextId>>
            /\ last' = Call("deleteLayer", "ok", TRUE, TRUE, TRUE)
            /\ After(IF fabricCanvas = "null" THEN objects
                     ELSE removeLayerFromCanvas(objects, layerId))

\* updateLayer's set(): only a top-level Layer of the Frame takes the updates
UpdatedLayers(fs, frameId, layerId, updates) ==
    MapFrame(fs, frameId, [f \in SeqToSet(fs) |->
        [f EXCEPT !.layers =
            [i \in 1..Len(@) |->
                IF @[i].id = layerId THEN Merge(@[i], updates) ELSE @[i]]]])

LayerUpdates == { [x |-> 30, y |-> 40] }

UpdateLayer(frameId, layerId, updates) ==
    /\ CanEdit
    /\ IF getFrame(frameId) = NoFrame \/ getLayer(frameId, layerId) = NoLayer
       THEN /\ UNCHANGED storeVars
            /\ last' = Call("updateLayer", "threw", FALSE, FALSE, FALSE)
       ELSE /\ frames' = UpdatedLayers(frames, frameId, layerId, updates)
            /\ UNCHANGED <<selectedFrameId, selectedLayerIds, past, future,
                           nextId>>
            /\ last' = Call("updateLayer", "ok", FALSE, TRUE, FALSE)
    /\ After(objects)

\* layerIds.map(id => f.layers.find(l => l.id === id)).filter(Boolean)
RECURSIVE PickLayers(_, _)
PickLayers(layers, layerIds) ==
    IF layerIds = <<>> THEN <<>>
    ELSE LET l == FindTop(layers, Head(layerIds)) IN
         (IF l = NoLayer THEN <<>> ELSE <<l>>)
         \o PickLayers(layers, Tail(layerIds))

ReorderLayers(frameId, layerIds) ==
    /\ CanEdit
    /\ frames' = MapFrame(frames, frameId, [f \in SeqToSet(frames) |->
           [f EXCEPT !.layers = PickLayers(@, layerIds)]])
    /\ UNCHANGED <<selectedFrameId, selectedLayerIds, past, future, nextId>>
    /\ last' = Call("reorderLayers", "ok", FALSE, TRUE, FALSE)
    /\ After(objects)

SelectLayers(layerIds) ==
    /\ CanSelect
    /\ LET frame == getFrame(selectedFrameId) IN
       selectedLayerIds' =
          IF selectedFrameId # NoId /\ Len(layerIds) > 0 /\ frame # NoFrame
          THEN SelectSeq(layerIds,
                         LAMBDA id : id \in SeqToSet(Ids(frame.layers)))
          ELSE <<>>
    /\ UNCHANGED <<frames, selectedFrameId, past, future, nextId>>
    /\ last' = Call("selectLayers", "ok", FALSE, FALSE, TRUE)
    /\ After(objects)

ToggleLayerVisibility(frameId, layerId) ==
    /\ CanEdit
    /\ LET layer == getLayer(frameId, layerId)
           frame == getFrame(frameId)
           layerObject == IF fabricCanvas = "null" THEN NoObject
                          ELSE getLayerFromCanvas(objects, layerId)
       IN
       IF layer = NoLayer \/ frame = NoFrame
       THEN /\ UNCHANGED frames
            /\ last' = Call("toggleLayerVisibility", "noop", FALSE, FALSE, FALSE)
       ELSE /\ last' = Call("toggleLayerVisibility", "ok", FALSE, TRUE, FALSE)
            /\ IF layerObject # NoObject
               THEN LET currentX == layerObject.left - frame.x
                        currentY == layerObject.top - frame.y
                    IN  frames' =
                          IF currentX # layer.x \/ currentY # layer.y
                          THEN UpdatedLayers(frames, frameId, layerId,
                                  [x |-> currentX, y |-> currentY,
                                   visible |-> ~layer.visible])
                          ELSE UpdatedLayers(frames, frameId, layerId,
                                  [visible |-> ~layer.visible])
               ELSE frames' = UpdatedLayers(frames, frameId, layerId,
                                  [visible |-> ~layer.visible])
    /\ UNCHANGED <<selectedFrameId, selectedLayerIds, past, future, nextId>>
    /\ After(objects)

ToggleLayerLock(frameId, layerId) ==
    /\ CanEdit
    /\ LET layer == getLayer(frameId, layerId) IN
       IF layer = NoLayer
       THEN /\ UNCHANGED frames
            /\ last' = Call("toggleLayerLock", "noop", FALSE, FALSE, FALSE)
       ELSE /\ frames' = UpdatedLayers(frames, frameId, layerId,
                                       [locked |-> ~layer.locked])
            /\ last' = Call("toggleLayerLock", "ok", FALSE, TRUE, FALSE)
    /\ UNCHANGED <<selectedFrameId, selectedLayerIds, past, future, nextId>>
    /\ After(objects)

----------------------------------------------------------------------------
(* useFrameStore: grouping *)

GroupBounds(layersToGroup) ==
    [left   |-> SeqMin([i \in 1..Len(layersToGroup) |-> layersToGroup[i].x]),
     top    |-> SeqMin([i \in 1..Len(layersToGroup) |-> layersToGroup[i].y]),
     right  |-> SeqMax([i \in 1..Len(layersToGroup) |->
                          layersToGroup[i].x + layersToGroup[i].width]),
     bottom |-> SeqMax([i \in 1..Len(layersToGroup) |->
                          layersToGroup[i].y + layersToGroup[i].height])]

GroupLayer(groupId, layersToGroup) ==
    LET bounds == GroupBounds(layersToGroup) IN
    [id |-> groupId, type |-> "group", visible |-> TRUE, locked |-> FALSE,
     x |-> bounds.left, y |-> bounds.top,
     width |-> bounds.right - bounds.left,
     height |-> bounds.bottom - bounds.top,
     imageUrl |-> "absent",
     children |-> [i \in 1..Len(layersToGroup) |->
                     [layersToGroup[i] EXCEPT !.x = @ - bounds.left,
                                              !.y = @ - bounds.top]]]

\* the Frame's layers after groupLayers' set()
GroupedLayers(layers, layerIds, groupLayer) ==
    LET remainingLayers ==
            SelectSeq(layers, LAMBDA l : l.id \notin SeqToSet(layerIds))
        firstLayerIndex == FindIndex(Ids(layers), layerIds[1])
    IN  Splice(remainingLayers, firstLayerIndex, 0, <<groupLayer>>)

GroupLayers(frameId, layerIds) ==
    /\ CanStruct
    /\ LET frame == getFrame(frameId) IN
       IF frame = NoFrame \/ Len(layerIds) < 2
       THEN /\ UNCHANGED storeVars
            /\ last' = Call("groupLayers", "threw", FALSE, FALSE, FALSE)
       ELSE LET layersToGroup == PickLayers(frame.layers, layerIds) IN
            /\ past' = PushPast(past, frames)
            /\ future' = PushFuture(future)
            /\ IF Len(layersToGroup) < 2
               THEN /\ UNCHANGED <<frames, selectedFrameId, selectedLayerIds,
                                   nextId>>
                    /\ last' = Call("groupLayers", "threw", TRUE, FALSE, FALSE)
               ELSE /\ frames' = MapFrame(frames, frameId,
                        [f \in SeqToSet(frames) |->
                           [f EXCEPT !.layers = GroupedLayers(@, layerIds,
                                         GroupLayer(nextId, layersToGroup))]])
                    /\ selectedLayerIds' = <<nextId>>
                    /\ nextId' = nextId + 1
                    /\ UNCHANGED selectedFrameId
                    /\ last' = Call("groupLayers", "ok", TRUE, TRUE, TRUE)
    /\ After(objects)

\* the children as they are stored in the group: relative to the group
UngroupedLayersRelative(groupLayer) == groupLayer.children

UngroupedLayers(groupLayer) ==
    [i \in 1..Len(groupLayer.children) |->
        [groupLayer.children[i] EXCEPT !.x = @ + groupLayer.x,
                                       !.y = @ + groupLayer.y]]

UngroupLayers(frameId, groupId) ==
    /\ CanStruct
    /\ LET frame == getFrame(frameId)
           groupLayer == getLayer(frameId, groupId)
       IN
       IF frame = NoFrame \/ groupLayer = NoLayer \/ groupLayer.type # "group"
       THEN /\ UNCHANGED storeVars
            /\ last' = Call("ungroupLayers", "threw", FALSE, FALSE, FALSE)
       ELSE LET ungroupedLayers == UngroupedLayers(groupLayer) IN
            /\ past' = PushPast(past, frames)
            /\ future' = PushFuture(future)
            /\ frames' = MapFrame(frames, frameId, [f \in SeqToSet(frames) |->
                   [f EXCEPT !.layers =
                       Splice(@, FindIndex(Ids(@), groupId), 1, ungroupedLayers)]])
            /\ selectedLayerIds' = Ids(ungroupedLayers)
            /\ UNCHANGED <<selectedFrameId, nextId>>
            /\ last' = Call("ungroupLayers", "ok", TRUE, TRUE, TRUE)
    /\ After(objects)

----------------------------------------------------------------------------
(* useFrameStore: history actions *)

Undo ==
    /\ CanUndo
    /\ IF past = <<>>
       THEN /\ UNCHANGED <<frames, past, future>>
            /\ last' = Call("undo", "noop", FALSE, FALSE, FALSE)
       ELSE /\ past' = UndoPast(past)
            /\ future' = UndoFuture(future, frames)
            /\ frames' = UndoResult(past)
            /\ last' = Call("undo", "ok", FALSE, TRUE, FALSE)
    /\ UNCHANGED <<selectedFrameId, selectedLayerIds, nextId>>
    /\ After(objects)

Redo ==
    /\ CanRedo
    /\ IF future = <<>>
       THEN /\ UNCHANGED <<frames, past, future>>
            /\ last' = Call("redo", "noop", FALSE, FALSE, FALSE)
       ELSE /\ past' = RedoPast(past, future)
            /\ future' = RedoFuture(future)
            /\ frames' = RedoResult(future)
            /\ last' = Call("redo", "ok", FALSE, TRUE, FALSE)
    /\ UNCHANGED <<selectedFrameId, selectedLayerIds, nextId>>
    /\ After(objects)

----------------------------------------------------------------------------
(* AIGenerateDialog.handleGenerate and the useAIStore fields it sets *)

\* a finished call: how it ended, the frame it was started for, the message
\* its catch block got, its place among the calls in flight and how many
\* others were still in flight
Finish(outcome, frameId, message, slot) ==
    [outcome |-> outcome, frameId |-> frameId, message |-> message,
     slot |-> slot, alongside |-> Len(inFlight) - IF slot = 0 THEN 0 ELSE 1]

\* useAIStore as created, with no handleGenerate call made
\* no render is waiting for its effects
NoCommit == [pending |-> FALSE, frameDep |-> FALSE, layersDep |-> FALSE]

\* sets: setActiveObject calls made by the two selection effects; same: those
\* made with the target already active; handlers: selection handlers the
\* engine has run; flushes: renders whose effects have run; click: the Frame
\* and the Layer of the tree item clicked last, if the last call was a click
NoClick == [frame |-> NoId, layer |-> NoId]

NoBridge ==
    [sets |-> 0, same |-> 0, handlers |-> 0, flushes |-> 0, click |-> NoClick]

BridgeIdle ==
    /\ activeObject = NoId
    /\ commit = NoCommit
    /\ bridge = NoBridge

DialogIdle ==
    /\ isGenerating = FALSE
    /\ aiError = "null"
    /\ inFlight = <<>>
    /\ nGenerate = 0
    /\ finished = <<>>

----------------------------------------------------------------------------
(* AIService: the current provider and inpainting *)

\* the keys of AIService.providers
Providers == {"pollinations", "together", "huggingface"}

\* the type ProviderName
ProviderNames == Providers \cup {"openai", "replicate"}

\* provider.isAvailable()
isAvailable(name) == IF name = "together" THEN togetherKey ELSE TRUE

\* 'generateInpainting' in provider
HasGenerateInpainting(name) == name = "huggingface" /\ hfInpainting

\* typeof provider.generateInpainting === 'function'
IsFunction(name) == HasGenerateInpainting(name)

\* a capability probe that answers yes for every provider
supportsInpaintingAlways(name) == TRUE

\* supportsInpainting(), for the provider name is the current one
supportsInpainting(name) == HasGenerateInpainting(name) /\ IsFunction(name)

NoInpaint ==
    [state |-> "none", error |-> "none", provider |-> "none",
     supported |-> FALSE, calls |-> <<>>]

\* the service as the constructor leaves it when no environment is set
ServiceDefault ==
    /\ togetherKey = FALSE
    /\ hfInpainting = TRUE
    /\ currentProviderName = "pollinations"
    /\ lastSwitch = [name |-> "none", returned |-> FALSE]
    /\ inpaint = NoInpaint

\* new AIService(): envProvider is VITE_AI_PROVIDER ("" when unset), one of
\* the providers the map holds
InitService ==
    /\ togetherKey \in BOOLEAN
    /\ hfInpainting \in BOOLEAN
    /\ \E envProvider \in Providers \cup {""} :
          LET chosen == IF envProvider = "" THEN "pollinations"
                        ELSE envProvider
          IN  currentProviderName =
                 IF isAvailable(chosen) THEN chosen ELSE "pollinations"
    /\ lastSwitch = [name |-> "none", returned |-> FALSE]
    /\ inpaint = NoInpaint

ServiceSide == <<storeVars, canvasVars, ghostVars, genVars, dialogVars,
                 bridgeVars>>

\* setProvider(providerName)
SetProvider(providerName) ==
    /\ IF providerName \notin Providers
       THEN /\ lastSwitch' = [name |-> providerName, returned |-> FALSE]
            /\ UNCHANGED currentProviderName
       ELSE IF ~isAvailable(providerName)
       THEN /\ lastSwitch' = [name |-> providerName, returned |-> FALSE]
            /\ UNCHANGED currentProviderName
       ELSE /\ lastSwitch' = [name |-> providerName, returned |-> TRUE]
            /\ currentProviderName' = providerName
    /\ UNCHANGED <<togetherKey, hfInpainting, inpaint>>
    /\ UNCHANGED ServiceSide

\* generateInpainting(params), down to its await: the capability check, then
\* the call of the provider's method
GenerateInpainting ==
    /\ inpaint.state # "pending"
    /\ LET provider == currentProviderName IN
       inpaint' =
          IF ~HasGenerateInpainting(provider) \/ ~IsFunction(provider)
          THEN [state |-> "rejected", error |-> "does not support inpainting",
                provider |-> provider,
                supported |-> supportsInpainting(provider), calls |-> <<>>]
          ELSE [state |-> "pending", error |-> "none", provider |-> provider,
                supported |-> supportsInpainting(provider),
                calls |-> <<[provider |-> provider,
                             method |-> "generateInpainting"]>>]
    /\ UNCHANGED <<togetherKey, hfInpainting, currentProviderName, lastSwitch>>
    /\ UNCHANGED ServiceSide

\* the provider's generateInpainting settles and generateInpainting returns
\* its result or throws its error again
InpaintingSettled(ok) ==
    /\ inpaint.state = "pending"
    /\ inpaint' = IF ok THEN [inpaint EXCEPT !.state = "resolved"]
                  ELSE [inpaint EXCEPT !.state = "rejected",
                                       !.error = "provider error"]
    /\ UNCHANGED <<togetherKey, hfInpainting, currentProviderName, lastSwitch>>
    /\ UNCHANGED ServiceSide

----------------------------------------------------------------------------
(* PollinationsProvider.generateImage: retries, backoff and cancellation.
   An Error is [failedAfter, text, seconds]: failedAfter > 0 stands for the
   prefix "Failed to generate image after <failedAfter> attempts. " put in
   front of text, and seconds is the number a timeout message quotes *)

maxRetries == 5

initialTimeout == 35000

TimeoutStep == 5000

TimeoutCap == 50000

BackoffBase == 1000

BackoffCap == 8000

NoError == [failedAfter |-> 0, text |-> "", seconds |-> 0]

CancelledError ==
    [failedAfter |-> 0, text |-> "Generation cancelled by user", seconds |-> 0]

DimensionsError ==
    [failedAfter |-> 0, text |-> "Image loaded but has invalid dimensions (0x0)",
     seconds |-> 0]

ServerError ==
    [failedAfter |-> 0,
     text |-> "Server error: Pollinations.ai returned an invalid image response",
     seconds |-> 0]

NetworkError ==
    [failedAfter |-> 0,
     text |-> "Network error: Unable to reach Pollinations.ai", seconds |-> 0]

\* Math.round(timeoutMs / 1000), for a whole number of milliseconds
RoundSeconds(ms) == (ms + 500) \div 1000

TimeoutError(ms) ==
    [failedAfter |-> 0, text |-> "Timeout: Image generation took longer than",
     seconds |-> RoundSeconds(ms)]

\* the last error thrown again as it is, without the prefix
ExhaustedErrorBare(error) == error

\* new Error(`Failed to generate image after ${maxRetries} attempts.
\* ${lastError.message}`)
ExhaustedError(error) == [error EXCEPT !.failedAfter = maxRetries]

\* a timeout that keeps growing with the attempt number
TimeoutMsUncapped(a) == initialTimeout + a * TimeoutStep

\* Math.min(initialTimeout + attempt * 5000, 50000)
TimeoutMs(a) == Min(initialTimeout + a * TimeoutStep, TimeoutCap)

\* Math.min(1000 * Math.pow(2, attempt), 8000)
BackoffDelay(a) == Min(BackoffBase * 2^a, BackoffCap)

Pending == [state |-> "pending", error |-> NoError]

Resolved == [state |-> "resolved", error |-> NoError]

Rejected(error) == [state |-> "rejected", error |-> error]

\* no generation is running
AIIdle ==
    /\ cancelSignal = FALSE
    /\ onProgress = FALSE
    /\ pc = "idle"
    /\ attempt = 0
    /\ timerMs = 0
    /\ lastError = NoError
    /\ result = Pending
    /\ generationAttempt = 0
    /\ reports = 0
    /\ attempts = <<>>
    /\ cancelledAt = [n |-> 0, pc |-> "never"]
    /\ ServiceDefault
    /\ DialogIdle

\* a loop body that goes on without looking at the cancel flag
StartAttemptUnchecked(a) ==
    /\ attempt' = a
    /\ generationAttempt' = IF onProgress THEN a + 1 ELSE generationAttempt
    /\ reports' = IF onProgress THEN reports + 1 ELSE reports
    /\ pc' = "verify"
    /\ timerMs' = TimeoutMs(a)
    /\ attempts' = Append(attempts, "pending")
    /\ UNCHANGED result

\* the loop body for attempt a, down to `await this.verifyImageLoads(...)`:
\* the cancel check, the progress report, the start of the image load
StartAttempt(a) ==
    /\ attempt' = a
    /\ IF cancelSignal
       THEN /\ result' = Rejected(CancelledError)
            /\ pc' = "done"
            /\ timerMs' = 0
            /\ UNCHANGED <<generationAttempt, reports, attempts>>
       ELSE /\ generationAttempt' = IF onProgress THEN a + 1
                                    ELSE generationAttempt
            /\ reports' = IF onProgress THEN reports + 1 ELSE reports
            /\ pc' = "verify"
            /\ timerMs' = TimeoutMs(a)
            /\ attempts' = Append(attempts, "pending")
            /\ UNCHANGED result

StoreSide == <<storeVars, canvasVars, ghostVars, serviceVars, dialogVars,
               bridgeVars>>

\* generateImage(params) is called: the first pass through the loop body
GenerateImage ==
    /\ pc = "call"
    /\ StartAttempt(0)
    /\ UNCHANGED <<cancelSignal, onProgress, lastError, cancelledAt>>
    /\ UNCHANGED StoreSide

\* whoever holds the cancel signal sets cancelSignal.cancelled = true
Cancel ==
    /\ pc \in {"call", "verify", "backoff"}
    /\ ~cancelSignal
    /\ cancelSignal' = TRUE
    /\ cancelledAt' = [n |-> Len(attempts), pc |-> pc]
    /\ UNCHANGED <<onProgress, pc, attempt, timerMs, lastError, result,
                   generationAttempt, reports, attempts>>
    /\ UNCHANGED StoreSide

\* verifyImageLoads settles with error (NoError: it resolves) and
\* generateImage goes on from its await: the return, or the catch block
VerifySettled(error) ==
    /\ attempts' = [attempts EXCEPT ![Len(attempts)] =
                        IF error = NoError THEN "resolved" ELSE "rejected"]
    /\ IF error = NoError
       THEN /\ result' = Resolved
            /\ pc' = "done"
            /\ timerMs' = 0
            /\ UNCHANGED lastError
       ELSE /\ lastError' = error
            /\ IF attempt = maxRetries - 1
               THEN /\ result' = Rejected(ExhaustedError(error))
                    /\ pc' = "done"
                    /\ timerMs' = 0
               ELSE /\ pc' = "backoff"
                    /\ timerMs' = BackoffDelay(attempt)
                    /\ UNCHANGED result
    /\ UNCHANGED <<cancelSignal, onProgress, attempt, generationAttempt,
                   reports, cancelledAt>>
    /\ UNCHANGED StoreSide

\* img.onload: dimensionsOk stands for img.width > 0 && img.height > 0
ImageLoaded(dimensionsOk) ==
    /\ pc = "verify"
    /\ VerifySettled(IF cancelSignal THEN CancelledError
                     ELSE IF dimensionsOk THEN NoError
                     ELSE DimensionsError)

\* img.onerror: the message is the server one unless fetch threw at once
ImageError(fetchThrew) ==
    /\ pc = "verify"
    /\ VerifySettled(IF fetchThrew THEN NetworkError ELSE ServerError)

\* the timeout of verifyImageLoads fires before the image has answered
AttemptTimeout ==
    /\ pc = "verify"
    /\ VerifySettled(IF cancelSignal THEN CancelledError
                     ELSE TimeoutError(timerMs))

\* the retry delay has passed: the loop goes to its next attempt
BackoffElapsed ==
    /\ pc = "backoff"
    /\ StartAttempt(attempt + 1)
    /\ UNCHANGED <<cancelSignal, onProgress, lastError, cancelledAt>>
    /\ UNCHANGED StoreSide

----------------------------------------------------------------------------
(* AIGenerateDialog.handleGenerate: from the click to the end of its
   finally block.  The Generate button is disabled while isGenerating; the
   handler itself does not look at the flag, and is modelled as callable *)

MaxGenerate == 3

MaxInFlight == 2

SettingsSize == 1024

\* the layer data handleGenerate hands to addLayer: x and y centre the image
\* in the frame
GeneratedLayer ==
    [type |-> "ai-generated", imageUrl |-> "img",
     x |-> (DefaultFrameWidth - SettingsSize) \div 2,
     y |-> (DefaultFrameHeight - SettingsSize) \div 2]

\* the messages a rejected generateImage can carry ("" : none)
RejectionMessages ==
    {"Failed to generate image after 5 attempts. Server error", ""}

\* err.message || 'Failed to generate image'
ErrorShown(message) ==
    IF message = "" THEN "Failed to generate image" ELSE message

\* the useAIStore fields [isGenerating, error] after setError(error) and
\* after setGenerating(flag)
AfterSetError(ai, error) == [isGenerating |-> FALSE, error |-> error]

AfterSetGenerating(ai, flag) == [isGenerating |-> flag, error |-> "null"]

AIStore == [isGenerating |-> isGenerating, error |-> aiError]

\* an addLayer that puts the new layer in place of the frame's layers
addLayerFramesReplacing(fs, frameId, layer) ==
    MapFrame(fs, frameId, [f \in SeqToSet(fs) |->
        [f EXCEPT !.layers = <<layer>>]])

\* the frames addLayer sets: the new layer appended to the frame's layers
addLayerFrames(fs, frameId, layer) ==
    MapFrame(fs, frameId, [f \in SeqToSet(fs) |->
        [f EXCEPT !.layers = Append(@, layer)]])

RemoveAt(q, i) == SubSeq(q, 1, i - 1) \o SubSeq(q, i + 1, Len(q))

DialogSide == <<canvasVars, nStruct, nEdit, nUndo, run, script, pushLog,
                deletedFrame,
                genVars, serviceVars, bridgeVars>>

\* handleGenerate is called: its two checks, setError(null),
\* setGenerating(true), and the call of aiService.generateImage
HandleGenerate(promptOk) ==
    /\ nGenerate < MaxGenerate
    /\ Len(inFlight) < MaxInFlight
    /\ nGenerate' = nGenerate + 1
    /\ LET selectedFrame == getFrame(selectedFrameId)
           refusal == IF ~promptOk THEN "Please enter a prompt"
                      ELSE IF selectedFrame = NoFrame
                      THEN "Please select a frame first"
                      ELSE "null"
           ai == IF refusal # "null" THEN AfterSetError(AIStore, refusal)
                 ELSE AfterSetGenerating(AfterSetError(AIStore, "null"), TRUE)
       IN  /\ isGenerating' = ai.isGenerating
           /\ aiError' = ai.error
           /\ inFlight' = IF refusal # "null" THEN inFlight
                          ELSE Append(inFlight, selectedFrame.id)
           /\ finished' = IF refusal # "null"
                          THEN Append(finished,
                                      Finish("refused", NoId, refusal, 0))
                          ELSE finished
    /\ last' = Call("handleGenerate", "ok", FALSE, FALSE, FALSE)
    /\ UNCHANGED <<storeVars, DialogSide>>

\* generateImage resolves for the i-th call in flight: addLayer on the frame
\* the call was started for, onOpenChange(false), then the finally block;
\* when addLayer throws, the catch block runs before it
GenerateResolved(i) ==
    /\ fabricCanvas = "null"
    /\ i \in 1..Len(inFlight)
    /\ inFlight' = RemoveAt(inFlight, i)
    /\ LET frame == getFrame(inFlight[i])
           thrown == "Cannot add layer: Frame not found"
           ai == IF frame = NoFrame
                 THEN AfterSetGenerating(AfterSetError(AIStore, thrown), FALSE)
                 ELSE AfterSetGenerating(AIStore, FALSE)
       IN  /\ isGenerating' = ai.isGenerating
           /\ aiError' = ai.error
           /\ IF frame = NoFrame
              THEN /\ UNCHANGED storeVars
                   /\ last' = Call("addLayer", "threw", FALSE, FALSE, FALSE)
                   /\ finished' = Append(finished,
                                     Finish("threw", inFlight[i], thrown, i))
              ELSE /\ Len(frame.layers) < run.layers
                   /\ past' = PushPast(past, frames)
                   /\ future' = PushFuture(future)
                   /\ frames' = addLayerFrames(frames, frame.id,
                                     NewLayer(nextId, GeneratedLayer))
                   /\ selectedLayerIds' = <<nextId>>
                   /\ nextId' = nextId + 1
                   /\ UNCHANGED selectedFrameId
                   /\ last' = Call("addLayer", "ok", TRUE, TRUE, TRUE)
                   /\ finished' = Append(finished,
                                     Finish("added", frame.id, "null", i))
    /\ UNCHANGED <<nGenerate, DialogSide>>

\* generateImage rejects with message for the i-th call in flight: the catch
\* block, then the finally block
GenerateRejected(i, message) ==
    /\ i \in 1..Len(inFlight)
    /\ inFlight' = RemoveAt(inFlight, i)
    /\ LET ai == AfterSetGenerating(
                     AfterSetError(AIStore, ErrorShown(message)), FALSE)
       IN  /\ isGenerating' = ai.isGenerating
           /\ aiError' = ai.error
    /\ finished' = Append(finished, Finish("rejected", inFlight[i],
                                           ErrorShown(message), i))
    /\ last' = Call("handleGenerate", "rejected", FALSE, FALSE, FALSE)
    /\ UNCHANGED <<storeVars, nGenerate, DialogSide>>

----------------------------------------------------------------------------
(* The store on its own: no canvas is mounted *)

RunStore ==
    [struct |-> MaxStruct, edit |-> MaxEdit, undo |-> MaxStruct,
     frames |-> MaxFrames, layers |-> MaxLayers, script |-> FALSE,
     log |-> FALSE]

\* a scripted run: A1..An, n undos, n redos, one undo
RunRoundTrip ==
    [struct |-> MaxScript, edit |-> 0, undo |-> -1,
     frames |-> MaxFrames, layers |-> MaxLayers, script |-> TRUE,
     log |-> FALSE]

\* The documents a run starts from, each with the selection and the id counter
\* its construction leaves: the empty document of a fresh store, and the
\* document built by addFrame() and two addLayer() calls (an imported image
\* and a drawing layer), its history emptied by useHistoryStore clear().
InitDocs ==
    { [frames |-> <<>>, selectedFrameId |-> NoId, selectedLayerIds |-> <<>>,
       nextId |-> 1],
      [frames |-> <<[NewFrame(1) EXCEPT !.layers =
                       <<NewLayer(2, [type |-> "image", imageUrl |-> "img",
                                      x |-> 10, y |-> 20]),
                         NewLayer(3, [type |-> "sketch",
                                      imageUrl |-> "undefined",
                                      x |-> 50, y |-> 60])>>]>>,
       selectedFrameId |-> 1, selectedLayerIds |-> <<3>>, nextId |-> 4] }

InitStore ==
    /\ \E d \in InitDocs :
          /\ frames = d.frames
          /\ selectedFrameId = d.selectedFrameId
          /\ selectedLayerIds = d.selectedLayerIds
          /\ nextId = d.nextId
    /\ past = <<>>
    /\ future = <<>>

InitCanvasState ==
    /\ objects = <<>>
    /\ raf = <<>>
    /\ passes = <<>>
    /\ crashed = FALSE
    /\ churn = [created |-> 0, removed |-> 0]

InitGhost ==
    /\ last = Call("init", "ok", FALSE, FALSE, FALSE)
    /\ nStruct = 0
    /\ nEdit = 0
    /\ nUndo = 0
    /\ script = [phase |-> "act", n |-> 0, k |-> 0, base |-> frames,
                 final |-> frames, preRedo |-> <<>>]
    /\ pushLog = [pure |-> TRUE, log |-> <<>>]
    /\ deletedFrame = NoFrame

Init ==
    /\ InitStore
    /\ InitCanvasState
    /\ InitGhost
    /\ fabricCanvas = "null"
    /\ run = RunStore
    /\ AIIdle
    /\ BridgeIdle

FrameArgs == FrameIds \cup {BadId}

LayerArgs(frameId) ==
    LET frame == getFrame(frameId) IN
    (IF frame = NoFrame THEN {} ELSE AllLayerIdsOf(frame.layers)) \cup {BadId}

\* the id lists tried: every list of two ids, and one list of a single id
IdLists(ids) == {<<a, b>> : a \in ids, b \in ids} \cup {<<a>> : a \in ids}

FrameUpdates == { [x |-> 150, y |-> 150] }

StructNext ==
    \/ AddFrame
    \/ \E f \in FrameArgs : DeleteFrame(f)
    \/ \E f \in FrameArgs : DuplicateFrame(f)
    \/ \E f \in FrameArgs, d \in LayerInputs : AddLayer(f, d)
    \/ \E f \in FrameArgs : \E l \in LayerArgs(f) : DeleteLayer(f, l)
    \/ \E f \in FrameArgs : \E ids \in IdLists(LayerArgs(f)) :
          GroupLayers(f, ids)
    \/ \E f \in FrameArgs : \E l \in LayerArgs(f) : UngroupLayers(f, l)

EditNext ==
    \/ \E f \in FrameArgs, u \in FrameUpdates : UpdateFrame(f, u)
    \/ \E f \in FrameArgs \cup {NoId} : SelectFrame(f)
    \/ \E f \in FrameArgs : \E l \in LayerArgs(f), u \in LayerUpdates :
          UpdateLayer(f, l, u)
    \/ \E f \in FrameArgs : \E ids \in IdLists(LayerArgs(f)) :
          ReorderLayers(f, ids)
    \/ \E f \in FrameIds : \E ids \in IdLists(LayerArgs(f)) \cup {<<>>} :
          SelectLayers(ids)
    \/ \E f \in FrameArgs : \E l \in LayerArgs(f) : ToggleLayerVisibility(f, l)
    \/ \E f \in FrameArgs : \E l \in LayerArgs(f) : ToggleLayerLock(f, l)

HistNext ==
    \/ Undo
    \/ Redo

Next == StructNext \/ EditNext \/ HistNext

Spec == Init /\ [][Next]_vars

InitRoundTrip ==
    /\ InitStore
    /\ InitCanvasState
    /\ InitGhost
    /\ fabricCanvas = "null"
    /\ run = RunRoundTrip
    /\ AIIdle
    /\ BridgeIdle

NextRoundTrip == StructNext \/ HistNext

SpecRoundTrip == InitRoundTrip /\ [][NextRoundTrip]_vars

----------------------------------------------------------------------------
(* InfiniteCanvas: the selection handlers registered on the canvas *)

\* the selectedFrameId that selectFrame(frameId) sets
selectFrame(frameId) ==
    IF frameId # NoId /\ getFrame(frameId) = NoFrame THEN NoId ELSE frameId

\* the selectedLayerIds that selectLayers(layerIds) sets while sel is the
\* selected frame
selectLayers(layerIds, sel) ==
    LET frame == getFrame(sel) IN
    IF sel # NoId /\ Len(layerIds) > 0 /\ frame # NoFrame
    THEN SelectSeq(layerIds, LAMBDA id : id \in SeqToSet(Ids(frame.layers)))
    ELSE <<>>

\* the objects a pick can report: those drawn on the canvas
PickTargets == {objects[i] : i \in {k \in 1..Len(objects) : objects[k].visible}}

PickEvents == {"selection:created", "selection:updated"}

\* the selection [frame, layers] after selectLayers(layerIds) and after
\* selectFrame(frameId)
AfterSelectLayers(sel, layerIds) ==
    [sel EXCEPT !.layers = selectLayers(layerIds, sel.frame)]

AfterSelectFrame(sel, frameId) ==
    [frame |-> selectFrame(frameId), layers |-> <<>>]

Selection == [frame |-> selectedFrameId, layers |-> selectedLayerIds]

\* canvas.on('selection:created') and canvas.on('selection:updated'): the two
\* store calls of the branch taken, in the order the handler makes them
SelectionPicked(event, target) ==
    /\ CanSelect
    /\ fabricCanvas # "null"
    /\ target.layerId # NoId \/ target.frameId # NoId
    /\ LET sel == IF target.layerId # NoId
                  THEN AfterSelectFrame(
                           AfterSelectLayers(Selection, <<target.layerId>>),
                           target.frameId)
                  ELSE AfterSelectLayers(
                           AfterSelectFrame(Selection, target.frameId), <<>>)
       IN  /\ selectedFrameId' = sel.frame
           /\ selectedLayerIds' = sel.layers
    /\ UNCHANGED <<frames, past, future, nextId>>
    /\ last' = Call(event, "ok", FALSE, FALSE, TRUE)
    /\ After(objects)

\* selection:cleared that would also give up the frame selection
SelectionClearedDropsFrame ==
    /\ CanSelect
    /\ fabricCanvas # "null"
    /\ selectedLayerIds' = <<>>
    /\ selectedFrameId' = NoId
    /\ UNCHANGED <<frames, past, future, nextId>>
    /\ last' = Call("selection:cleared", "ok", FALSE, FALSE, TRUE)
    /\ After(objects)

\* canvas.on('selection:cleared'): selectLayers([])
SelectionCleared ==
    /\ CanSelect
    /\ fabricCanvas # "null"
    /\ selectedLayerIds' = selectLayers(<<>>, selectedFrameId)
    /\ UNCHANGED <<frames, selectedFrameId, past, future, nextId>>
    /\ last' = Call("selection:cleared", "ok", FALSE, FALSE, TRUE)
    /\ After(objects)

\* canvas.on('mouse:down') with no target under the pointer: selectLayers([])
\* and canvas.discardActiveObject(), whose selection:cleared event repeats
\* the same store call
MouseDownEmpty ==
    /\ CanSelect
    /\ fabricCanvas # "null"
    /\ selectedLayerIds' = selectLayers(<<>>, selectedFrameId)
    /\ UNCHANGED <<frames, selectedFrameId, past, future, nextId>>
    /\ last' = Call("mouse:down", "ok", FALSE, FALSE, TRUE)
    /\ After(objects)

----------------------------------------------------------------------------
(* InfiniteCanvas: the object:moving handler *)

\* how far one movement event carries the dragged object
DragDelta == 50

\* the frames the handler's closure holds: the handlers are registered once,
\* by the effect that runs after the first render, on the store's initial
\* state
MountFrames == <<>>

\* a layer object left where the model has it
DraggedLayerPositionStale(frame, deltaX, deltaY, layer) ==
    [left |-> frame.x + layer.x, top |-> frame.y + layer.y]

DraggedLayerPosition(frame, deltaX, deltaY, layer) ==
    [left |-> frame.x + deltaX + layer.x, top |-> frame.y + deltaY + layer.y]

\* layerObjects.forEach: the objects of the Frame's top-level Layers follow
\* the frame object
MoveLayersWithFrame(objs, target, frame) ==
    LET deltaX == target.left - frame.x
        deltaY == target.top - frame.y
    IN  [j \in 1..Len(objs) |->
            LET layer == FindTop(frame.layers, objs[j].layerId) IN
            IF /\ objs[j].frameId = target.frameId
               /\ objs[j].layerId # NoId
               /\ layer # NoLayer
            THEN LET pos == DraggedLayerPosition(frame, deltaX, deltaY, layer)
                 IN  [objs[j] EXCEPT !.left = pos.left, !.top = pos.top]
            ELSE objs[j]]

\* the draw list the handler leaves, the engine having put the target at its
\* live position
AfterObjectMoving(objs, target) ==
    LET isFrame == target.frameId # NoId /\ target.layerId = NoId
        frame == getFrame(target.frameId)
    IN  IF isFrame /\ frame = NoFrame THEN objs
        ELSE enforceZOrder(IF isFrame
                           THEN MoveLayersWithFrame(objs, target, frame)
                           ELSE objs,
                           MountFrames)

\* the i-th object of the draw list is dragged by DragDelta
ObjectMoving(i) ==
    /\ CanEdit
    /\ fabricCanvas # "null"
    /\ i \in 1..Len(objects)
    /\ UNCHANGED storeVars
    /\ last' = Call("object:moving", "ok", FALSE, FALSE, FALSE)
    /\ LET target == [objects[i] EXCEPT !.left = @ + DragDelta,
                                        !.top = @ + DragDelta]
           live == [j \in 1..Len(objects) |->
                       IF objects[j].oid = target.oid THEN target
                       ELSE objects[j]]
       IN  After(AfterObjectMoving(live, target))

----------------------------------------------------------------------------
(* The store with the canvas mounted *)

RunCanvas ==
    [struct |-> MaxCanvasStruct, edit |-> MaxCanvasEdit, undo |-> 1,
     frames |-> MaxFrames, layers |-> MaxCanvasLayers, script |-> FALSE,
     log |-> FALSE]

\* the component mounts on an empty store: its "render layers" effect has
\* requested its first animation frame
InitCanvas ==
    /\ frames = <<>>
    /\ selectedFrameId = NoId
    /\ selectedLayerIds = <<>>
    /\ nextId = 1
    /\ past = <<>>
    /\ future = <<>>
    /\ objects = <<>>
    /\ raf = <<[frames |-> <<>>, again |-> FALSE]>>
    /\ passes = <<>>
    /\ crashed = FALSE
    /\ churn = [created |-> 0, removed |-> 0]
    /\ InitGhost
    /\ fabricCanvas = "canvas"
    /\ run = RunCanvas
    /\ AIIdle
    /\ BridgeIdle

NextCanvas ==
    \/ AddFrame
    \/ \E f \in FrameIds : DeleteFrame(f)
    \/ \E f \in FrameIds, d \in LayerInputs : AddLayer(f, d)
    \/ \E f \in FrameIds : \E l \in AllLayerIdsOf(getFrame(f).layers) :
          DeleteLayer(f, l)
    \/ \E f \in FrameArgs, u \in FrameUpdates : UpdateFrame(f, u)
    \/ \E f \in FrameIds \cup {NoId} : SelectFrame(f)
    \/ \E f \in FrameIds : \E l \in AllLayerIdsOf(getFrame(f).layers) :
          SelectLayers(<<l>>)
    \/ \E f \in FrameIds : \E l \in AllLayerIdsOf(getFrame(f).layers) :
          ToggleLayerVisibility(f, l)
    \/ \E f \in FrameIds : \E l \in AllLayerIdsOf(getFrame(f).layers) :
          \E u \in LayerUpdates : UpdateLayer(f, l, u)
    \/ \E event \in PickEvents, target \in PickTargets :
          SelectionPicked(event, target)
    \/ SelectionCleared
    \/ MouseDownEmpty
    \/ Undo
    \/ Redo
    \/ RafFire
    \/ \E p \in 1..Len(passes) : PassStep(p)

SpecCanvas == InitCanvas /\ [][NextCanvas]_vars

----------------------------------------------------------------------------
(* Gestures on the canvas: frames and layers are added, objects are dragged,
   and object:modified commits the position with updateFrame *)

\* structural calls and movement events per run of SpecDrag
MaxDragStruct == 3

MaxDragEdit == 2

RunDrag ==
    [struct |-> MaxDragStruct, edit |-> MaxDragEdit, undo |-> 0,
     frames |-> MaxFrames, layers |-> MaxCanvasLayers, script |-> FALSE,
     log |-> FALSE]

InitDrag ==
    /\ frames = <<>>
    /\ selectedFrameId = NoId
    /\ selectedLayerIds = <<>>
    /\ nextId = 1
    /\ past = <<>>
    /\ future = <<>>
    /\ objects = <<>>
    /\ raf = <<[frames |-> <<>>, again |-> FALSE]>>
    /\ passes = <<>>
    /\ crashed = FALSE
    /\ churn = [created |-> 0, removed |-> 0]
    /\ InitGhost
    /\ fabricCanvas = "canvas"
    /\ run = RunDrag
    /\ AIIdle
    /\ BridgeIdle

NextDrag ==
    \/ AddFrame
    \/ \E f \in FrameIds, d \in LayerInputs : AddLayer(f, d)
    \/ \E f \in FrameIds, u \in FrameUpdates : UpdateFrame(f, u)
    \/ \E i \in 1..Len(objects) : ObjectMoving(i)
    \/ RafFire
    \/ \E p \in 1..Len(passes) : PassStep(p)

SpecDrag == InitDrag /\ [][NextDrag]_vars

----------------------------------------------------------------------------
(* The end of a gesture: the engine has scaled and moved the target, and
   fires object:modified *)

\* structural calls and completed gestures per run of SpecResize
MaxResizeStruct == 2

MaxResizeGestures == 2

\* the scale factors a resize leaves on its target, in hundredths, and the
\* distances it moves the target's corner
GestureScales == {ScaleUnit, 125, 2 * ScaleUnit}

GestureShifts == {0, DragDelta}

\* Math.round(n / d): the nearest whole number, a half going up
Round(n, d) == (2 * n + d) \div (2 * d)

\* object:modified, frame target: the patch handed to updateFrame
FrameModifiedUpdates(target) ==
    IF target.scaleX # ScaleUnit \/ target.scaleY # ScaleUnit
    THEN [x |-> Round(target.left, 1), y |-> Round(target.top, 1),
          width |-> Round(target.width * target.scaleX, ScaleUnit),
          height |-> Round(target.height * target.scaleY, ScaleUnit)]
    ELSE [x |-> Round(target.left, 1), y |-> Round(target.top, 1)]

\* object:modified, frame target: target.set({scaleX: 1, scaleY: 1, width,
\* height}) when the target was scaled
FrameModifiedTarget(target) ==
    LET updates == FrameModifiedUpdates(target) IN
    IF target.scaleX # ScaleUnit \/ target.scaleY # ScaleUnit
    THEN [target EXCEPT !.scaleX = ScaleUnit, !.scaleY = ScaleUnit,
                        !.width = updates.width, !.height = updates.height]
    ELSE target

\* object:modified, layer target: the patch handed to updateLayer (the
\* model's Layers carry no scale and no rotation)
LayerModifiedUpdates(target, frame) ==
    [x |-> Round(target.left - frame.x, 1),
     y |-> Round(target.top - frame.y, 1)]

\* the draw list with every entry of the target's object replaced
WithTarget(objs, target) ==
    [j \in 1..Len(objs) |->
        IF objs[j].oid = target.oid THEN target ELSE objs[j]]

\* a gesture on the i-th object of the draw list ends: the engine has left
\* the target at scale (scaleX, scaleY), moved by (shiftX, shiftY)
ObjectModified(i, scaleX, scaleY, shiftX, shiftY) ==
    /\ CanEdit
    /\ fabricCanvas # "null"
    /\ i \in 1..Len(objects)
    /\ UNCHANGED <<selectedFrameId, selectedLayerIds, past, future, nextId>>
    /\ IF objects[i].layerId # NoId
       THEN LET target == [objects[i] EXCEPT !.left = @ + shiftX,
                                              !.top = @ + shiftY]
                frame == getFrame(target.frameId)
            IN
            /\ scaleX = ScaleUnit /\ scaleY = ScaleUnit
            /\ IF frame = NoFrame
               THEN /\ frames' = frames
                    /\ last' = Call("object:modified", "noop", FALSE, FALSE,
                                    FALSE)
               ELSE IF getLayer(target.frameId, target.layerId) = NoLayer
               THEN /\ frames' = frames
                    /\ last' = Call("object:modified", "threw", FALSE, FALSE,
                                    FALSE)
               ELSE /\ frames' = UpdatedLayers(frames, target.frameId,
                                               target.layerId,
                                               LayerModifiedUpdates(target,
                                                                    frame))
                    /\ last' = Call("object:modified", "ok", FALSE, TRUE,
                                    FALSE)
            /\ After(WithTarget(objects, target))
       ELSE LET target == [objects[i] EXCEPT !.left = @ + shiftX,
                                              !.top = @ + shiftY,
                                              !.scaleX = scaleX,
                                              !.scaleY = scaleY]
            IN
            /\ frames' = MapFrame(frames, target.frameId,
                   [f \in SeqToSet(frames) |->
                       Merge(f, FrameModifiedUpdates(target))])
            /\ last' = Call("object:modified", "ok", FALSE, TRUE, FALSE)
            /\ After(WithTarget(objects, FrameModifiedTarget(target)))

RunResize ==
    [struct |-> MaxResizeStruct, edit |-> MaxResizeGestures, undo |-> 0,
     frames |-> MaxFrames, layers |-> MaxCanvasLayers, script |-> FALSE,
     log |-> FALSE]

InitResize ==
    /\ frames = <<>>
    /\ selectedFrameId = NoId
    /\ selectedLayerIds = <<>>
    /\ nextId = 1
    /\ past = <<>>
    /\ future = <<>>
    /\ objects = <<>>
    /\ raf = <<[frames |-> <<>>, again |-> FALSE]>>
    /\ passes = <<>>
    /\ crashed = FALSE
    /\ churn = [created |-> 0, removed |-> 0]
    /\ InitGhost
    /\ fabricCanvas = "canvas"
    /\ run = RunResize
    /\ AIIdle
    /\ BridgeIdle

NextResize ==
    \/ AddFrame
    \/ \E f \in FrameIds, d \in LayerInputs : AddLayer(f, d)
    \/ \E i \in 1..Len(objects) :
          \E scaleX \in GestureScales, scaleY \in GestureScales :
          \E shiftX \in GestureShifts, shiftY \in GestureShifts :
             ObjectModified(i, scaleX, scaleY, shiftX, shiftY)
    \/ RafFire
    \/ \E p \in 1..Len(passes) : PassStep(p)

SpecResize == InitResize /\ [][NextResize]_vars

----------------------------------------------------------------------------
(* The selection bridge: selectFrame and selectLayers called by the side
   panels, the effects of the render that follows, and the selection events
   the engine fires while those effects run.  The Document Model is fixed. *)

\* selection calls of the side panels per run of SpecBridge
MaxPanelCalls == 3

\* renders whose effects run after one panel call
MaxFlushes == 6

\* the canvas while the effects of one render run: the draw list, the active
\* object, the store's selection as the handlers leave it, and counters
Engine ==
    [objs |-> objects, active |-> activeObject, sel |-> Selection,
     crashed |-> FALSE, created |-> 0, removed |-> 0,
     handlers |-> 0, sets |-> 0, same |-> 0]

\* the handlers of selection:created and selection:updated, given the first
\* selected object
PickedSelection(sel, target) ==
    IF target.layerId # NoId
    THEN AfterSelectFrame(AfterSelectLayers(sel, <<target.layerId>>),
                          target.frameId)
    ELSE IF target.frameId # NoId
    THEN AfterSelectLayers(AfterSelectFrame(sel, target.frameId), <<>>)
    ELSE sel

\* canvas.setActiveObject(obj): nothing happens when obj is active already;
\* otherwise obj becomes the active object and the engine fires
\* selection:created (nothing was active) or selection:updated (something
\* was), whose handlers are the same
setActiveObject(eng, obj) ==
    IF eng.active = obj.oid THEN eng
    ELSE [eng EXCEPT !.active = obj.oid,
                     !.sel = PickedSelection(@, obj),
                     !.handlers = @ + 1]

\* canvas.remove(obj): removing the active object discards it and fires
\* selection:cleared, whose handler calls selectLayers([])
removeFromCanvas(eng, obj) ==
    LET removed == [eng EXCEPT !.objs = RemoveObject(@, obj),
                               !.removed = @ + 1]
    IN  IF eng.active # obj.oid THEN removed
        ELSE [removed EXCEPT !.active = NoId,
                             !.sel = AfterSelectLayers(@, <<>>),
                             !.handlers = @ + 1]

\* useEffect "render frames", frames.forEach from the i-th frame on, with
\* the setActiveObject calls it makes for the selected Frame
RECURSIVE RenderFramesEngine(_, _, _, _, _)
RenderFramesEngine(eng, fs, i, canvasFrameIds, selF) ==
    IF i > Len(fs) \/ eng.crashed THEN eng
    ELSE LET frame == fs[i]
             isSelected == frame.id = selF
             frameObject == getFrameFromCanvas(eng.objs, frame.id)
             newFrameObject == createFrameObject(FreshOid(eng.objs), frame)
             Added(e) ==
                 LET added == [e EXCEPT !.objs = Append(@, newFrameObject),
                                        !.created = @ + 1]
                 IN  IF isSelected THEN setActiveObject(added, newFrameObject)
                     ELSE added
         IN
         IF frame.id \notin canvasFrameIds
         THEN RenderFramesEngine(Added(eng), fs, i + 1, canvasFrameIds, selF)
         ELSE IF frameObject = NoObject
         THEN RenderFramesEngine(eng, fs, i + 1, canvasFrameIds, selF)
         ELSE IF updateFrameObjectThrows(frameObject)
         THEN [eng EXCEPT !.crashed = TRUE]
         ELSE RenderFramesEngine(Added(removeFromCanvas(eng, frameObject)),
                                 fs, i + 1, canvasFrameIds, selF)

\* useEffect "render frames", canvasFrameIds.forEach: the objects of frames
\* that left the store are removed, the active object among them
SweepDeleted(rendered, gone) ==
    IF rendered.crashed THEN rendered
    ELSE LET swept == RemoveDeletedFrames(Canvas(rendered.objs), gone) IN
         IF rendered.active = NoId
            \/ rendered.active \in
                  {swept.objs[i].oid : i \in 1..Len(swept.objs)}
         THEN [rendered EXCEPT !.objs = swept.objs,
                               !.removed = @ + swept.removed]
         ELSE [rendered EXCEPT !.objs = swept.objs,
                               !.removed = @ + swept.removed,
                               !.active = NoId,
                               !.sel = AfterSelectLayers(@, <<>>),
                               !.handlers = @ + 1]

CanvasFrameIds(objs) == {objs[i].frameId : i \in 1..Len(objs)}

\* a setActiveObject call made by one of the two selection effects
BridgeSet(eng, obj) ==
    [setActiveObject(eng, obj) EXCEPT
        !.sets = @ + 1,
        !.same = @ + IF eng.active = obj.oid THEN 1 ELSE 0]

\* the effect, were it to set the active object without looking at it
FrameBridgeUnguarded(eng, selF) ==
    LET frameObject == getFrameFromCanvas(eng.objs, selF) IN
    IF selF = NoId \/ frameObject = NoObject THEN eng
    ELSE BridgeSet(eng, frameObject)

\* useEffect "frame selection from store", deps [selectedFrameId]
FrameBridge(eng, selF) ==
    LET frameObject == getFrameFromCanvas(eng.objs, selF) IN
    IF selF = NoId \/ frameObject = NoObject THEN eng
    ELSE IF eng.active # frameObject.oid THEN BridgeSet(eng, frameObject)
    ELSE eng

\* useEffect "layer selection from store", deps [selectedLayerIds]
LayerBridge(eng, selL) ==
    LET layerObject == IF selL = <<>> THEN NoObject
                       ELSE getLayerFromCanvas(eng.objs, selL[1])
    IN  IF selL = <<>> \/ layerObject = NoObject THEN eng
        ELSE IF eng.active # layerObject.oid THEN BridgeSet(eng, layerObject)
        ELSE eng

\* what the bridge actions leave alone
BridgeSide == <<frames, past, future, nextId, passes, fabricCanvas, nStruct,
                nUndo, run, script, pushLog, deletedFrame, genVars,
                serviceVars, dialogVars>>

\* a side panel calls selectFrame(frameId)
PanelSelectFrame(frameId) ==
    /\ CanSelect
    /\ fabricCanvas # "null"
    /\ ~commit.pending
    /\ selectedFrameId' = selectFrame(frameId)
    /\ selectedLayerIds' = <<>>
    /\ commit' = [pending |-> TRUE,
                  frameDep |-> selectedFrameId' # selectedFrameId,
                  layersDep |-> TRUE]
    /\ bridge' = NoBridge
    /\ last' = Call("selectFrame", "ok", FALSE, FALSE, TRUE)
    /\ nEdit' = nEdit + 1
    /\ UNCHANGED <<objects, raf, crashed, churn, activeObject>>
    /\ UNCHANGED BridgeSide

\* a side panel calls selectLayers(layerIds)
PanelSelectLayers(layerIds) ==
    /\ CanSelect
    /\ fabricCanvas # "null"
    /\ ~commit.pending
    /\ selectedLayerIds' = selectLayers(layerIds, selectedFrameId)
    /\ commit' = [pending |-> TRUE, frameDep |-> FALSE, layersDep |-> TRUE]
    /\ bridge' = NoBridge
    /\ last' = Call("selectLayers", "ok", FALSE, FALSE, TRUE)
    /\ nEdit' = nEdit + 1
    /\ UNCHANGED <<selectedFrameId, objects, raf, crashed, churn,
                   activeObject>>
    /\ UNCHANGED BridgeSide

\* LayersTreePanel.handleLayerClick on the item of layerId under frameId:
\* selectLayers([layer.id]), then selectFrame(frameId) unless that Frame is
\* the selected one; React renders once for the two calls
LayerClick(frameId, layerId) ==
    /\ CanSelect
    /\ fabricCanvas # "null"
    /\ ~commit.pending
    /\ LET picked == AfterSelectLayers(Selection, <<layerId>>)
           sel == IF selectedFrameId # frameId
                  THEN AfterSelectFrame(picked, frameId)
                  ELSE picked
       IN  /\ selectedFrameId' = sel.frame
           /\ selectedLayerIds' = sel.layers
           /\ commit' = [pending |-> TRUE,
                         frameDep |-> sel.frame # selectedFrameId,
                         layersDep |-> TRUE]
    /\ bridge' = [NoBridge EXCEPT !.click = [frame |-> frameId,
                                             layer |-> layerId]]
    /\ last' = Call("handleLayerClick", "ok", FALSE, FALSE, TRUE)
    /\ nEdit' = nEdit + 1
    /\ UNCHANGED <<objects, raf, crashed, churn, activeObject>>
    /\ UNCHANGED BridgeSide

\* the new oid of the active object, the draw list being renumbered
CanonActive(objs, active) ==
    IF active = NoId THEN NoId
    ELSE FindIndex(Distinct([i \in 1..Len(objs) |-> objs[i].oid]), active) + 1

\* the state the effects of one render leave
Flushed(eng) ==
    /\ objects' = Canon(eng.objs)
    /\ activeObject' = CanonActive(eng.objs, eng.active)
    /\ selectedFrameId' = eng.sel.frame
    /\ selectedLayerIds' = eng.sel.layers
    /\ crashed' = eng.crashed
    /\ churn' = [created |-> eng.created, removed |-> eng.removed]
    /\ raf' = IF eng.crashed THEN <<>>
              ELSE IF commit.layersDep
              THEN <<[frames |-> frames, again |-> FALSE]>>
              ELSE raf
    /\ commit' = IF eng.crashed \/ eng.handlers = 0 THEN NoCommit
                  ELSE [pending |-> TRUE,
                        frameDep |-> eng.sel.frame # selectedFrameId,
                        layersDep |-> TRUE]
    /\ bridge' = [sets |-> bridge.sets + eng.sets,
                  same |-> bridge.same + eng.same,
                  handlers |-> bridge.handlers + eng.handlers,
                  flushes |-> bridge.flushes + 1,
                  click |-> bridge.click]

\* the effects of the committed render run, in the order the component
\* declares them: render frames (deps [frames, selectedFrameId]), the frame
\* bridge (deps [selectedFrameId]), the layer bridge (deps
\* [selectedLayerIds]); an effect that throws ends the list, and the store
\* calls the handlers made meanwhile bring the next render
Flush ==
    /\ ~crashed
    /\ commit.pending
    /\ bridge.flushes < MaxFlushes
    /\ \E drawn \in {IF commit.frameDep
                      THEN RenderFramesEngine(Engine, frames, 1,
                                              CanvasFrameIds(objects),
                                              selectedFrameId)
                      ELSE Engine} :
       \E rendered \in {IF commit.frameDep
                         THEN SweepDeleted(drawn, CanvasFrameIds(objects)
                                                    \ SeqToSet(Ids(frames)))
                         ELSE drawn} :
       \E framed \in {IF commit.frameDep /\ ~rendered.crashed
                       THEN FrameBridge(rendered, selectedFrameId)
                       ELSE rendered} :
       \E eng \in {IF commit.layersDep /\ ~framed.crashed
                    THEN LayerBridge(framed, selectedLayerIds)
                    ELSE framed} :
           Flushed(eng)
    /\ last' = Call("effects", "ok", FALSE, FALSE, FALSE)
    /\ UNCHANGED nEdit
    /\ UNCHANGED BridgeSide

RunBridge ==
    [struct |-> 0, edit |-> MaxPanelCalls, undo |-> 0, frames |-> MaxFrames,
     layers |-> MaxCanvasLayers, script |-> FALSE, log |-> FALSE]

\* documents on a mounted canvas, each as the calls named leave it:
\* addFrame, addLayer and the image loaded; addFrame twice; addFrame,
\* addLayer, the image loaded and the layer object picked on the canvas
BridgeDocs ==
    LET frame1 == NewFrame(1)
        layer2 == NewLayer(2, [type |-> "image", imageUrl |-> "img",
                               x |-> 10, y |-> 20])
        withLayer == [frame1 EXCEPT !.layers = <<layer2>>]
    IN  { [frames |-> <<withLayer>>, nextId |-> 3,
           objects |-> <<createFrameObject(1, withLayer),
                         createLayerObject(2, layer2, withLayer)>>,
           active |-> 1, selectedFrameId |-> 1],
          [frames |-> <<frame1, NewFrame(2)>>, nextId |-> 3,
           objects |-> <<createFrameObject(1, frame1),
                         createFrameObject(2, NewFrame(2))>>,
           active |-> 2, selectedFrameId |-> 2],
          [frames |-> <<withLayer>>, nextId |-> 3,
           objects |-> <<createFrameObject(1, withLayer),
                         createLayerObject(2, layer2, withLayer)>>,
           active |-> 2, selectedFrameId |-> 1] }

InitBridge ==
    /\ \E d \in BridgeDocs :
          /\ frames = d.frames
          /\ nextId = d.nextId
          /\ objects = d.objects
          /\ activeObject = d.active
          /\ selectedFrameId = d.selectedFrameId
    /\ selectedLayerIds = <<>>
    /\ past = <<>>
    /\ future = <<>>
    /\ raf = <<>>
    /\ passes = <<>>
    /\ crashed = FALSE
    /\ churn = [created |-> 0, removed |-> 0]
    /\ InitGhost
    /\ fabricCanvas = "canvas"
    /\ run = RunBridge
    /\ AIIdle
    /\ commit = NoCommit
    /\ bridge = NoBridge

NextBridge ==
    \/ \E f \in FrameArgs \cup {NoId} : PanelSelectFrame(f)
    \/ \E f \in FrameIds : \E ids \in IdLists(LayerArgs(f)) \cup {<<>>} :
          PanelSelectLayers(ids)
    \/ \E f \in FrameIds : \E l \in AllLayerIdsOf(getFrame(f).layers) :
          LayerClick(f, l)
    \/ Flush
    \/ ~commit.pending /\ RafFire

SpecBridge == InitBridge /\ [][NextBridge]_vars

\* React runs the effects of every render it commits
FairBridge == SpecBridge /\ WF_vars(Flush)

----------------------------------------------------------------------------
(* The history under many pushes: frames are added and deleted in turn, so
   that successive snapshots differ, with at most one undo on the way *)

RunHistory ==
    [struct |-> MaxPushes, edit |-> 0, undo |-> 1,
     frames |-> 1, layers |-> 0, script |-> FALSE, log |-> TRUE]

InitHistory ==
    /\ frames = <<>>
    /\ selectedFrameId = NoId
    /\ selectedLayerIds = <<>>
    /\ nextId = 1
    /\ past = <<>>
    /\ future = <<>>
    /\ InitCanvasState
    /\ InitGhost
    /\ fabricCanvas = "null"
    /\ run = RunHistory
    /\ AIIdle
    /\ BridgeIdle

NextHistory ==
    \/ AddFrame
    \/ \E f \in FrameIds : DeleteFrame(f)
    \/ Undo

SpecHistory == InitHistory /\ [][NextHistory]_vars

\* structural calls and undos per run of SpecStacks: enough pushes to fill
\* past, then undos and redos at the cap
MaxStackPushes == 51

MaxStackUndos == 2

RunStacks ==
    [struct |-> MaxStackPushes, edit |-> 0, undo |-> MaxStackUndos,
     frames |-> 1, layers |-> 0, script |-> FALSE, log |-> FALSE]

InitStacks ==
    /\ frames = <<>>
    /\ selectedFrameId = NoId
    /\ selectedLayerIds = <<>>
    /\ nextId = 1
    /\ past = <<>>
    /\ future = <<>>
    /\ InitCanvasState
    /\ InitGhost
    /\ fabricCanvas = "null"
    /\ run = RunStacks
    /\ AIIdle
    /\ BridgeIdle

NextStacks ==
    \/ AddFrame
    \/ \E f \in FrameIds : DeleteFrame(f)
    \/ Undo
    \/ Redo

SpecStacks == InitStacks /\ [][NextStacks]_vars

\* the last n entries of a sequence
LastEntries(q, n) == SubSeq(q, Max(1, Len(q) - n + 1), Len(q))

\* C3: past never holds more than 50 entries, and after any number of pushes
\* (and nothing else) it holds the most recent 50 snapshots pushed, in push
\* order: a push onto a full past evicts exactly the oldest entry
HistoryCap ==
    /\ Len(past) <= MAX_HISTORY_SIZE
    /\ pushLog.pure =>
          past = LastEntries([i \in 1..Len(pushLog.log) |->
                                JsonClone(pushLog.log[i])], MAX_HISTORY_SIZE)

\* sixty pushes have been made: the ten oldest snapshots are gone
HistoryCapReached ==
    /\ pushLog.pure
    /\ Len(pushLog.log) = 60
    /\ Len(past) = MAX_HISTORY_SIZE
    /\ past[1] = JsonClone(pushLog.log[11])
    /\ past[2] = JsonClone(pushLog.log[12])
    /\ past[2] # JsonClone(pushLog.log[2])

----------------------------------------------------------------------------
(* One generateImage call, from the call to the moment its promise settles *)

InitGenerate ==
    /\ frames = <<>>
    /\ selectedFrameId = NoId
    /\ selectedLayerIds = <<>>
    /\ nextId = 1
    /\ past = <<>>
    /\ future = <<>>
    /\ InitCanvasState
    /\ InitGhost
    /\ fabricCanvas = "null"
    /\ run = RunStore
    /\ cancelSignal \in BOOLEAN
    /\ onProgress \in BOOLEAN
    /\ pc = "call"
    /\ attempt = 0
    /\ timerMs = 0
    /\ lastError = NoError
    /\ result = Pending
    /\ generationAttempt = 0
    /\ reports = 0
    /\ attempts = <<>>
    /\ cancelledAt = [n |-> 0, pc |-> IF cancelSignal THEN "call" ELSE "never"]
    /\ BridgeIdle
    /\ ServiceDefault
    /\ DialogIdle

NextGenerate ==
    \/ GenerateImage
    \/ Cancel
    \/ \E dimensionsOk \in BOOLEAN : ImageLoaded(dimensionsOk)
    \/ \E fetchThrew \in BOOLEAN : ImageError(fetchThrew)
    \/ AttemptTimeout
    \/ BackoffElapsed

SpecGenerate == InitGenerate /\ [][NextGenerate]_vars

\* the call is made, and the timers generateImage waits on do fire
FairGenerate ==
    /\ SpecGenerate
    /\ WF_vars(GenerateImage)
    /\ WF_vars(AttemptTimeout)
    /\ WF_vars(BackoffElapsed)

----------------------------------------------------------------------------
(* The AI service: provider switches and inpainting requests *)

InitAIService ==
    /\ frames = <<>>
    /\ selectedFrameId = NoId
    /\ selectedLayerIds = <<>>
    /\ nextId = 1
    /\ past = <<>>
    /\ future = <<>>
    /\ InitCanvasState
    /\ InitGhost
    /\ fabricCanvas = "null"
    /\ run = RunStore
    /\ cancelSignal = FALSE
    /\ onProgress = FALSE
    /\ pc = "idle"
    /\ attempt = 0
    /\ timerMs = 0
    /\ lastError = NoError
    /\ result = Pending
    /\ generationAttempt = 0
    /\ reports = 0
    /\ attempts = <<>>
    /\ cancelledAt = [n |-> 0, pc |-> "never"]
    /\ BridgeIdle
    /\ InitService
    /\ DialogIdle

NextAIService ==
    \/ \E providerName \in ProviderNames : SetProvider(providerName)
    \/ GenerateInpainting
    \/ \E ok \in BOOLEAN : InpaintingSettled(ok)

SpecAIService == InitAIService /\ [][NextAIService]_vars

----------------------------------------------------------------------------
(* The generate dialog over the store, with no canvas mounted *)

MaxDialogStruct == 2

RunDialog ==
    [struct |-> MaxDialogStruct, edit |-> 1, undo |-> 1,
     frames |-> MaxFrames, layers |-> MaxLayers, script |-> FALSE,
     log |-> FALSE]

InitDialog ==
    /\ frames = <<NewFrame(1)>>
    /\ selectedFrameId = 1
    /\ selectedLayerIds = <<>>
    /\ nextId = 2
    /\ past = <<<<>>>>
    /\ future = <<>>
    /\ InitCanvasState
    /\ InitGhost
    /\ fabricCanvas = "null"
    /\ run = RunDialog
    /\ AIIdle
    /\ BridgeIdle

NextDialog ==
    \/ AddFrame
    \/ \E f \in FrameIds : DeleteFrame(f)
    \/ \E f \in FrameIds \cup {NoId} : SelectFrame(f)
    \/ Undo
    \/ \E promptOk \in BOOLEAN : HandleGenerate(promptOk)
    \/ \E i \in 1..Len(inFlight) : GenerateResolved(i)
    \/ \E i \in 1..Len(inFlight), message \in RejectionMessages :
          GenerateRejected(i, message)

SpecDialog == InitDialog /\ [][NextDialog]_vars

----------------------------------------------------------------------------
(* groupLayers and ungroupLayers on a Frame of four Layers *)

\* structural calls per run of SpecGroups: group, group the group, ungroup
MaxGroupCalls == 3

GroupedFrameLayers == 4

RunGroups ==
    [struct |-> MaxGroupCalls, edit |-> 0, undo |-> 1, frames |-> 1,
     layers |-> GroupedFrameLayers, script |-> FALSE, log |-> FALSE]

InitGroups ==
    /\ frames = <<[NewFrame(1) EXCEPT !.layers =
                     [i \in 1..GroupedFrameLayers |->
                        NewLayer(i + 1, [type |-> "image", imageUrl |-> "img",
                                         x |-> 10 * i, y |-> 20 * i])]]>>
    /\ selectedFrameId = 1
    /\ selectedLayerIds = <<GroupedFrameLayers + 1>>
    /\ nextId = GroupedFrameLayers + 2
    /\ past = <<>>
    /\ future = <<>>
    /\ InitCanvasState
    /\ InitGhost
    /\ fabricCanvas = "null"
    /\ run = RunGroups
    /\ AIIdle
    /\ BridgeIdle

\* lists of two different ids
IdPairs(ids) == {p \in ids \X ids : p[1] # p[2]}

NextGroups ==
    \/ \E f \in FrameIds : \E ids \in IdPairs(LayerArgs(f)) :
          GroupLayers(f, ids)
    \/ \E f \in FrameIds : \E l \in LayerArgs(f) : UngroupLayers(f, l)
    \/ Undo
    \/ Redo

SpecGroups == InitGroups /\ [][NextGroups]_vars

----------------------------------------------------------------------------
(* Undo / redo round trip *)

\* C1: from an empty history, n structural calls A1..An followed by n undo()
\* calls leave frames equal to the snapshot taken before A1, and n redo()
\* calls after that leave frames equal to the snapshot of the frames after An
\* (two values are deep-equal when their JSON clones are the same: a key that
\* holds undefined counts as a key that is absent)
UndoRedoRoundTrip ==
    /\ script.phase = "undo" /\ script.k = script.n
          => JsonClone(frames) = JsonClone(script.base)
    /\ script.phase = "redo" /\ script.k = script.n
          => JsonClone(frames) = JsonClone(script.final)

\* two calls that changed the frames have been undone and redone
UndoRedoRoundTripReached ==
    /\ script.phase = "redo"
    /\ script.n >= 2
    /\ script.k = script.n
    /\ Len(past) = script.n
    /\ JsonClone(script.base) # JsonClone(script.final)

\* C2: a redo() followed immediately by an undo() returns frames to the value
\* they had just before the redo()
RedoThenUndoRestores ==
    script.phase = "back" => frames = script.preRedo

----------------------------------------------------------------------------
(* What the store's calls do to the history *)

\* C4: a successful structural call leaves future empty, also when undo()
\* calls had filled it, and a redo() that finds future empty returns nothing
\* and leaves frames unchanged
ActionClearsFuture ==
    [][/\ last'.op \in Structural /\ last'.res = "ok" => future' = <<>>
       /\ last'.op = "redo" /\ future = <<>>
             => last'.res = "noop" /\ frames' = frames]_vars

\* a structural call has just discarded the redo entries that undo() left
ActionClearsFutureReached ==
    /\ last.op \in Structural
    /\ last.res = "ok"
    /\ last.hadFuture
    /\ future = <<>>
    /\ past # <<>>

\* C5: a successful structural call appends exactly one entry to past, and
\* that entry is deep-equal to the frames the call found
ActionPushesSnapshot ==
    [][last'.op \in Structural /\ last'.res = "ok" =>
          LET n == Len(past') IN
          /\ n >= 1
          /\ JsonClone(past'[n]) = JsonClone(frames)
          /\ SubSeq(past', 1, n - 1) =
                IF Len(past) < MAX_HISTORY_SIZE THEN past ELSE Tail(past)]_vars

\* a second structural call has pushed the frames it found, which it changed
ActionPushesSnapshotReached ==
    /\ last.op \in Structural
    /\ last.res = "ok"
    /\ Len(past) = 2
    /\ JsonClone(past[2]) # JsonClone(frames)
    /\ past[1] # past[2]

\* C6: updateFrame, updateLayer, the visibility and lock toggles,
\* reorderLayers, selectFrame and selectLayers leave past and future as they
\* were
EditKeepsHistory ==
    [][last'.op \in Edits \cup Selects => past' = past /\ future' = future]_vars

\* such a call has been made with entries on both stacks
EditKeepsHistoryReached ==
    /\ last.op \in Edits \cup Selects
    /\ last.res = "ok"
    /\ past # <<>>
    /\ future # <<>>

----------------------------------------------------------------------------
(* The canvas against the Document Model *)

\* C7: at every moment the canvas holds at most one Render Object tagged with
\* a given Layer id, and at most one frame Render Object per Frame id
OneObjectPerId ==
    \A i, j \in 1..Len(objects) :
        objects[i].oid # objects[j].oid =>
            \/ objects[i].layerId # objects[j].layerId
            \/ /\ objects[i].layerId = NoId
               /\ objects[i].frameId # objects[j].frameId

ImageBearing(fs) ==
    SelectSeq(TopLayers(fs), LAMBDA l :
        l.type \in {"image", "ai-generated"} /\ l.imageUrl = "img")

\* C8: once reconciliation has completed, with no creation pending, there are
\* as many Render Objects as Frames plus image-bearing Layers, and none is
\* tagged with a Frame or a Layer that has left the model
ObjectsMatchModel ==
    Reconciled =>
        /\ Cardinality({objects[i].oid : i \in 1..Len(objects)})
              = Len(frames) + Len(ImageBearing(frames))
        /\ \A i \in 1..Len(objects) :
              /\ objects[i].frameId \in FrameIds
              /\ objects[i].layerId # NoId =>
                    objects[i].layerId \in SeqToSet(Ids(TopLayers(frames)))

\* the place of a Render Object in the canonical draw order: frames in model
\* order, then layers by frame and layer order; -1 if its tag is not in the
\* model
DrawRank(o) ==
    IF o.layerId = NoId THEN FindIndex(Ids(frames), o.frameId)
    ELSE LET r == FindIndex(Ids(TopLayers(frames)), o.layerId) IN
         IF r < 0 THEN r ELSE Len(frames) + r

\* C9: once reconciliation has completed, with no creation pending, the draw
\* list holds the frame objects in model order, then the layer objects by
\* frame and, within a frame, by layer order
CanonicalDrawOrder ==
    Reconciled =>
        \A i, j \in 1..Len(objects) :
            i < j /\ DrawRank(objects[i]) >= 0 /\ DrawRank(objects[j]) >= 0
                => DrawRank(objects[i]) <= DrawRank(objects[j])

\* C10: a reconciliation pass that runs again on a reconciled canvas, without
\* a change of the Document Model or the selection, creates and removes no
\* Render Object and leaves the draw list as it was
SecondPassIdle ==
    [][(\/ /\ last'.setFrames \/ last'.setLayers
           /\ Reconciled
           /\ NoChange
        \/ /\ last'.op = "raf"
           /\ raf[1].again)
       => /\ churn'.created = 0
          /\ churn'.removed = 0
          /\ objects' = objects]_vars

\* C11: once reconciliation has completed, the Render Object of a Layer sits
\* at Frame position + Layer offset and is visible exactly when the Layer is
\* (stated for frames that stand where addFrame put them, so that only a
\* change of the Layer can move the target)
LayerObjectInSync ==
    Reconciled =>
        \A i \in 1..Len(objects) :
            LET o == objects[i]
                frame == getFrame(o.frameId)
                layer == IF frame = NoFrame THEN NoLayer
                         ELSE FindTop(frame.layers, o.layerId)
            IN  /\ o.layerId # NoId
                /\ layer # NoLayer
                /\ frame.x = DefaultFrameXY
                /\ frame.y = DefaultFrameXY
                => /\ o.left = frame.x + layer.x
                   /\ o.top = frame.y + layer.y
                   /\ o.visible = layer.visible

\* C12: every selected Layer id is a Layer of the Frame named by
\* selectedFrameId (no Layer is selected under another Frame or under none)
SelectedLayersInSelectedFrame ==
    \A i \in 1..Len(selectedLayerIds) :
        /\ getFrame(selectedFrameId) # NoFrame
        /\ selectedLayerIds[i] \in AllLayerIdsOf(getFrame(selectedFrameId).layers)

\* C13: a selectLayers call with a non-empty list of Layer ids of some Frame
\* leaves that Frame, the owner of the first id, as the selected Frame
SelectLayersSelectsOwner ==
    [][\A f \in FrameIds :
          \A ids \in IdLists(SeqToSet(Ids(getFrame(f).layers))) :
              SelectLayers(ids) => selectedFrameId' = f]_vars

\* C14: after a pick (selection created or updated) that reports a Render
\* Object carrying a Layer id, selectedLayerIds is exactly that Layer and
\* selectedFrameId is the Frame the object belongs to
PickSelectsLayer ==
    [][\A event \in PickEvents, target \in PickTargets :
          target.layerId # NoId /\ SelectionPicked(event, target)
              => /\ selectedLayerIds' = <<target.layerId>>
                 /\ selectedFrameId' = target.frameId]_vars

MutationsFailFast ==
    [][/\ DeleteFrame(BadId) => last'.res = "threw"
       /\ \A u \in FrameUpdates : UpdateFrame(BadId, u) => last'.res = "threw"
       /\ DuplicateFrame(BadId) => last'.res = "threw"
       /\ \A d \in LayerInputs : AddLayer(BadId, d) => last'.res = "threw"
       /\ \A f \in FrameArgs : \A l \in LayerArgs(f) :
             f = BadId \/ l = BadId
                 => /\ DeleteLayer(f, l) => last'.res = "threw"
                    /\ UngroupLayers(f, l) => last'.res = "threw"
                    /\ \A u \in LayerUpdates :
                          UpdateLayer(f, l, u) => last'.res = "threw"
       /\ \A f \in FrameArgs : \A ids \in IdLists(LayerArgs(f)) :
             f = BadId \/ BadId \in SeqToSet(ids)
                 => /\ ReorderLayers(f, ids) => last'.res = "threw"
                    /\ GroupLayers(f, ids) => last'.res = "threw"]_vars

----------------------------------------------------------------------------
(* generateImage: retries and cancellation *)

Failed(n) == [i \in 1..n |-> "rejected"]

\* C17: generateImage makes at most 5 attempts and stops at the first one
\* that succeeds; when attempts 1-4 fail and attempt 5 succeeds it resolves
\* and the last attempt number reported is 5; when all 5 attempts fail it
\* rejects with the retry-exhausted error, which is not the cancellation
\* error
RetryUpToFive ==
    /\ Len(attempts) <= maxRetries
    /\ \A i \in 1..Len(attempts) - 1 : attempts[i] = "rejected"
    /\ result.state = "rejected" /\ ~cancelSignal => attempts = Failed(maxRetries)
    /\ attempts = Append(Failed(4), "resolved")
          => /\ result = Resolved
             /\ onProgress => generationAttempt = 5 /\ reports = 5
    /\ attempts = Failed(5)
          => /\ result.state = "rejected"
             /\ result.error.failedAfter = 5
             /\ result.error.text = lastError.text
             /\ result.error # CancelledError

\* four attempts failed, the fifth succeeded, and 5 was the last number
\* reported
RetryUpToFiveReached ==
    /\ attempts = Append(Failed(4), "resolved")
    /\ onProgress
    /\ generationAttempt = 5
    /\ result = Resolved
    /\ lastError # NoError

\* C18: when the cancel flag was set before generateImage settled (before an
\* attempt, while an attempt is in flight, or during a retry delay), the
\* promise is rejected with the cancellation error, never with the
\* retry-exhausted error
CancelRejectsAsCancelled ==
    cancelSignal /\ pc = "done" => result = Rejected(CancelledError)

\* the flag was set during the retry delay between attempt 2 and attempt 3
CancelledBetween2And3 == cancelledAt = [n |-> 2, pc |-> "backoff"]

\* C19: once the cancel flag is set, generateImage starts no further attempt
\* and makes no further progress report; when the flag is set between
\* attempt 2 and attempt 3 the promise is rejected with the cancellation
\* error and no third or later attempt is ever started
CancelStopsRetries ==
    /\ [][cancelSignal => /\ Len(attempts') = Len(attempts)
                          /\ reports' = reports
                          /\ generationAttempt' = generationAttempt]_vars
    /\ [](CancelledBetween2And3 => Len(attempts) = 2)
    /\ [](CancelledBetween2And3 /\ pc = "done"
             => result = Rejected(CancelledError))
    /\ CancelledBetween2And3 ~> result = Rejected(CancelledError)

\* cancelled between attempt 2 and attempt 3, and rejected as cancelled with
\* two attempts made
CancelStopsRetriesReached ==
    /\ CancelledBetween2And3
    /\ result = Rejected(CancelledError)
    /\ Len(attempts) = 2
    /\ attempt = 2

----------------------------------------------------------------------------
(* Inpainting on a provider that lacks it *)

\* C20: generateInpainting rejects with the 'does not support inpainting'
\* error, having invoked no method of the current provider, exactly when
\* supportsInpainting() is false for the current provider; when it is true
\* the request is handed to that provider's generateInpainting
InpaintingFailsFast ==
    inpaint.state # "none" =>
        /\ ~inpaint.supported <=> inpaint.error = "does not support inpainting"
        /\ ~inpaint.supported => inpaint.state = "rejected" /\ inpaint.calls = <<>>
        /\ inpaint.supported =>
              inpaint.calls = <<[provider |-> inpaint.provider,
                                 method |-> "generateInpainting"]>>

\* an inpainting request was refused on a provider switched to, without
\* any call to the provider
InpaintingFailsFastReached ==
    /\ inpaint.state = "rejected"
    /\ inpaint.error = "does not support inpainting"
    /\ inpaint.provider = "together"
    /\ lastSwitch = [name |-> "together", returned |-> TRUE]
    /\ inpaint.calls = <<>>

----------------------------------------------------------------------------
(* The generate dialog: failures and concurrent completions *)

\* C21: when a generation request rejects, then once the generate handler
\* has finished the AI store has isGenerating = false and error equal to
\* the rejection's message
RejectionStaysVisible ==
    [][\A i \in 1..Len(inFlight), message \in RejectionMessages :
          GenerateRejected(i, message)
              => /\ isGenerating' = FALSE
                 /\ aiError' = ErrorShown(message)]_vars

\* C22: with generations in flight at once, completing in either order, each
\* completion appends exactly one new Layer to the Frame it was started for
\* (when that Frame is still in the model) and pushes exactly one history
\* entry; every Layer that was there, the other completion's included, stays
\* as it was
CompletionsAreIndependent ==
    [][\A i \in 1..Len(inFlight) :
          GenerateResolved(i) /\ getFrame(inFlight[i]) # NoFrame
              => /\ Len(frames') = Len(frames)
                 /\ \A k \in 1..Len(frames) :
                       frames'[k] =
                          IF frames[k].id = inFlight[i]
                          THEN [frames[k] EXCEPT !.layers =
                                   Append(@, NewLayer(nextId, GeneratedLayer))]
                          ELSE frames[k]
                 /\ nextId \notin UNION {AllLayerIdsOf(frames[k].layers) :
                                            k \in 1..Len(frames)}
                 /\ past' = Append(past, JsonClone(frames))]_vars

\* two calls were in flight at once for different Frames; the one started
\* later completed first, then the other, and each Frame holds its Layer
CompletionsAreIndependentReached ==
    /\ Len(finished) = 2
    /\ finished[1].outcome = "added" /\ finished[1].slot = 2
    /\ finished[1].alongside = 1
    /\ finished[2].outcome = "added"
    /\ finished[1].frameId # finished[2].frameId
    /\ \A k \in 1..Len(frames) :
          Len(frames[k].layers) = 1 /\ frames[k].layers[1].type = "ai-generated"
    /\ Len(frames) = 2

\* C23: groupLayers followed immediately by ungroupLayers on the group it
\* returned leaves every grouped Layer at the top level of the Frame with the
\* frame-relative x and y it had before grouping (the snapshot groupLayers
\* pushed onto past holds the Frame as it was before grouping)
GroupUngroupRestores ==
    [][\A f \in FrameArgs : \A g \in LayerArgs(f) :
          /\ last.op = "groupLayers" /\ last.res = "ok"
          /\ selectedLayerIds = <<g>>
          /\ UngroupLayers(f, g)
          => LET before == FindFrame(past[Len(past)], f)
                 after  == FindFrame(frames', f)
                 group  == getLayer(f, g)
             IN  /\ Len(group.children) >= 2
                 /\ \A id \in SeqToSet(Ids(group.children)) :
                       LET was == FindTop(before.layers, id)
                           now == FindTop(after.layers, id)
                       IN  /\ was # NoLayer /\ now # NoLayer
                           /\ now.x = was.x /\ now.y = was.y
                 /\ \A k \in 1..Len(after.layers) :
                       after.layers[k].id \in SeqToSet(Ids(group.children))
                          => LET was == FindTop(before.layers,
                                                after.layers[k].id)
                             IN  /\ after.layers[k].x = was.x
                                 /\ after.layers[k].y = was.y]_vars

\* L1 at (10,20) and L2 at (50,60) were grouped and ungrouped again
GroupUngroupRestoresReached ==
    /\ last.op = "ungroupLayers" /\ last.res = "ok"
    /\ Len(past) = 2
    /\ Len(frames) = 1 /\ Len(past[2]) = 1
    /\ Len(past[2][1].layers) = 1
    /\ past[2][1].layers[1].type = "group"
    /\ past[2][1].layers[1].x = 10 /\ past[2][1].layers[1].y = 20
    /\ Len(past[2][1].layers[1].children) = 2
    /\ past[2][1].layers[1].children[2].x = 40
    /\ Len(frames[1].layers) = 2
    /\ frames[1].layers[1].x = 10 /\ frames[1].layers[1].y = 20
    /\ frames[1].layers[2].x = 50 /\ frames[1].layers[2].y = 60

\* C24: in every reachable state no Frame's top-level Layer sequence holds
\* the same Layer id twice
TopLevelIdsDistinct ==
    \A k \in 1..Len(frames) :
       Distinct(Ids(frames[k].layers)) = Ids(frames[k].layers)

\* the groups of a Frame, nested ones included
RECURSIVE GroupsOf(_)
GroupsOf(layers) ==
    IF layers = <<>> THEN {}
    ELSE (IF Head(layers).type = "group" THEN {Head(layers)} ELSE {})
         \cup GroupsOf(Head(layers).children)
         \cup GroupsOf(Tail(layers))

\* C25: in every reachable state no Layer id is both among a group's
\* children and at the top level of the same Frame, and no Layer id is among
\* the children of two different groups of the same Frame
OneParent ==
    \A k \in 1..Len(frames) :
       LET top    == SeqToSet(Ids(frames[k].layers))
           groups == GroupsOf(frames[k].layers)
       IN  /\ \A g \in groups : SeqToSet(Ids(g.children)) \cap top = {}
           /\ \A g, h \in groups :
                 g.id # h.id
                    => SeqToSet(Ids(g.children))
                          \cap SeqToSet(Ids(h.children)) = {}

\* C26: after deleteFrame(F) and a completed reconciliation nothing of F
\* remains: no Frame of the model holds a Layer of F, no Render Object is
\* tagged with F's id or with the id of one of F's Layers, and
\* selectedLayerIds holds none of F's Layer ids
DeletedFrameLeavesNothing ==
    deletedFrame # NoFrame /\ Reconciled
       => LET layerIds == AllLayerIdsOf(deletedFrame.layers) IN
          /\ \A k \in 1..Len(frames) :
                /\ frames[k].id # deletedFrame.id
                /\ AllLayerIdsOf(frames[k].layers) \cap layerIds = {}
          /\ \A i \in 1..Len(objects) :
                /\ objects[i].frameId # deletedFrame.id
                /\ objects[i].layerId \notin layerIds
          /\ SeqToSet(selectedLayerIds) \cap layerIds = {}

\* C27: after every movement event of a Frame being dragged, each Render
\* Object of one of its Layers is at the frame object's live position plus
\* the Layer's model-relative offset, and the Document Model is left as it
\* was (no updateLayer call)
LayersFollowDraggedFrame ==
    [][\A i \in 1..Len(objects) :
          /\ ObjectMoving(i)
          /\ objects[i].layerId = NoId
          /\ getFrame(objects[i].frameId) # NoFrame
          => LET frame == getFrame(objects[i].frameId) IN
             /\ frames' = frames
             /\ last'.op = "object:moving"
             /\ Len(objects') = Len(objects)
             /\ objects'[i].left = objects[i].left + DragDelta
             /\ objects'[i].top = objects[i].top + DragDelta
             /\ \A j \in 1..Len(objects') : \A k \in 1..Len(frame.layers) :
                   objects'[j].layerId = frame.layers[k].id
                      => /\ objects'[j].left
                               = objects'[i].left + frame.layers[k].x
                         /\ objects'[j].top
                               = objects'[i].top + frame.layers[k].y]_vars

\* Frame F at (100,100) with a Layer at relative (10,20) on the canvas: one
\* movement event has put F's object at (150,150) and the Layer's at
\* (160,170), with the model untouched
LayersFollowDraggedFrameReached ==
    /\ last.op = "object:moving"
    /\ Len(frames) = 1
    /\ frames[1].x = 100 /\ frames[1].y = 100
    /\ Len(frames[1].layers) = 1
    /\ frames[1].layers[1].x = 10 /\ frames[1].layers[1].y = 20
    /\ \E i, j \in 1..Len(objects) :
          /\ objects[i].layerId = NoId /\ objects[i].frameId = frames[1].id
          /\ objects[i].left = 150 /\ objects[i].top = 150
          /\ objects[j].layerId = frames[1].layers[1].id
          /\ objects[j].left = 160 /\ objects[j].top = 170

\* C28: after every movement event the draw list is in the canonical order
\* for the Document Model as it is at the time of the event: no object is
\* drawn above an object that follows it in model order
DrawOrderHeldWhileMoving ==
    [][\A i \in 1..Len(objects) :
          ObjectMoving(i)
             => \A a, b \in 1..Len(objects') :
                   /\ a < b
                   /\ DrawRank(objects'[a]) >= 0
                   /\ DrawRank(objects'[b]) >= 0
                   => DrawRank(objects'[a]) <= DrawRank(objects'[b])]_vars

\* the number of entries of a draw list that are the object oid
Entries(objs, oid) == Len(SelectSeq(objs, LAMBDA o : o.oid = oid))

\* both draw lists hold the same objects, each as often as the other
SameEntries(a, b) ==
    /\ Len(a) = Len(b)
    /\ \A i \in 1..Len(a) : Entries(b, a[i].oid) = Entries(a, a[i].oid)
    /\ \A i \in 1..Len(b) : Entries(a, b[i].oid) = Entries(b, b[i].oid)

\* C29: z-order enforcement never adds, drops or duplicates an entry of the
\* draw list: whenever the z-order effect runs after a change of frames, the
\* list it leaves holds exactly the objects of the list it found
ZOrderKeepsEntries ==
    [][last'.setFrames /\ fabricCanvas # "null"
          => LET rendered == RenderFramesEffect(Canvas(objects), frames') IN
             ~rendered.crashed
                => SameEntries(enforceZOrder(rendered.objs, frames'),
                               rendered.objs)]_vars

\* C30: after a selection change made by a side panel, the two selection
\* effects set the engine's active object only when it differs from the
\* Render Object they located, and the chain of selection events and store
\* updates that follows comes to an end: every committed render has its
\* effects run and a render is reached after which no handler runs
BridgeSettles ==
    /\ [](bridge.same = 0)
    /\ [](bridge.flushes <= MaxFlushes - 1)
    /\ (commit.pending ~> ~commit.pending)

\* a panel call made an effect set the active object, the engine's event
\* changed the store, the next render's effects ran, and nothing is left
BridgeSettlesReached ==
    /\ ~commit.pending
    /\ ~crashed
    /\ bridge.sets >= 1
    /\ bridge.handlers >= 1
    /\ bridge.flushes >= 2

\* C31: when a resize of a Frame ends, the model's width and height become
\* the rounded products of the target's width and height with its scale
\* factors, x and y the rounded live position, the Render Object of the
\* Frame has scale 1 again, and that object has the committed width and
\* height, so that the same gesture made again scales the committed size
ResizeFoldsScale ==
    [][\A i \in 1..Len(objects) :
       \A scaleX \in GestureScales, scaleY \in GestureScales :
       \A shiftX \in GestureShifts, shiftY \in GestureShifts :
          (/\ objects[i].layerId = NoId
           /\ scaleX # ScaleUnit \/ scaleY # ScaleUnit
           /\ ObjectModified(i, scaleX, scaleY, shiftX, shiftY))
          => LET frame == FindFrame(frames', objects[i].frameId) IN
             /\ frame.width = Round(objects[i].width * scaleX, ScaleUnit)
             /\ frame.height = Round(objects[i].height * scaleY, ScaleUnit)
             /\ frame.x = objects[i].left + shiftX
             /\ frame.y = objects[i].top + shiftY
             /\ \A j \in 1..Len(objects') :
                   (objects'[j].frameId = frame.id
                    /\ objects'[j].layerId = NoId)
                   => /\ objects'[j].scaleX = ScaleUnit
                      /\ objects'[j].scaleY = ScaleUnit
                      /\ objects'[j].width = frame.width
                      /\ objects'[j].height = frame.height]_vars

\* the entries of a draw list that are the frame object of a Frame
FrameEntries(objs, frameId) ==
    {i \in 1..Len(objs) : objs[i].frameId = frameId /\ objs[i].layerId = NoId}

\* C32: a pass of the reconciliation in which the update of the existing
\* frame objects reports failure (it always does) and which does not throw
\* leaves, for every Frame that had a frame object, exactly one frame object
RecreatedFrameObjectIsUnique ==
    [][(/\ fabricCanvas # "null"
        /\ last'.setFrames \/ selectedFrameId' # selectedFrameId
        /\ ~crashed')
       => \A k \in 1..Len(frames') :
             FrameEntries(objects, frames'[k].id) # {}
             => Cardinality(FrameEntries(objects', frames'[k].id)) = 1]_vars

\* the ids of every Layer of the model, at any depth
ModelLayerIds ==
    UNION {AllLayerIdsOf(frames[k].layers) : k \in 1..Len(frames)}

\* C33: in every reachable state, after undo() and redo() too,
\* selectedFrameId is null or names a Frame of frames, and every id in
\* selectedLayerIds names a Layer of the model
SelectionNeverDangles ==
    /\ selectedFrameId = NoId \/ selectedFrameId \in SeqToSet(Ids(frames))
    /\ \A i \in 1..Len(selectedLayerIds) :
          selectedLayerIds[i] \in ModelLayerIds

\* C34: a call of the commit surface that ends by throwing, or a
\* deleteFrame that names no Frame of the store and so removes none,
\* leaves past and future exactly as they were
FailedCallsLeaveHistory ==
    [][(\/ last'.res = "threw"
        \/ last'.op = "deleteFrame" /\ frames' = frames)
       => past' = past /\ future' = future]_vars

\* C35: past and future never hold more than MAX_HISTORY_SIZE entries
\* between them, and undo() and redo() each move exactly one entry from one
\* stack to the other
StacksWithinCap ==
    /\ [](Len(past) + Len(future) <= MAX_HISTORY_SIZE)
    /\ [][(last'.op = "undo" /\ last'.res = "ok")
          => /\ Len(past') = Len(past) - 1
             /\ Len(future') = Len(future) + 1]_vars
    /\ [][(last'.op = "redo" /\ last'.res = "ok")
          => /\ Len(past') = Len(past) + 1
             /\ Len(future') = Len(future) - 1]_vars

\* past was full, two undos were made and one of them redone
StacksWithinCapReached ==
    /\ last.op = "redo"
    /\ last.res = "ok"
    /\ Len(past) = MAX_HISTORY_SIZE - 1
    /\ Len(future) = 1

\* C36: reorderLayers changes the order of one Frame's Layers and nothing
\* else: whatever ids it is given, every Frame has afterwards the Layers it
\* had before, each once, and the Frames that were not named are unchanged
ReorderKeepsLayers ==
    [][last'.op = "reorderLayers"
       => /\ Len(frames') = Len(frames)
          /\ \A k \in 1..Len(frames) :
                /\ Len(frames'[k].layers) = Len(frames[k].layers)
                /\ SeqToSet(frames'[k].layers) = SeqToSet(frames[k].layers)]_vars

\* C37: groupLayers followed immediately by ungroupLayers on the group it
\* returned leaves the Frame with the top-level Layer ids it had before
\* grouping, in the same order, whichever ids were grouped and in whichever
\* order they were given
GroupUngroupKeepsOrder ==
    [][\A f \in FrameArgs : \A g \in LayerArgs(f) :
          /\ last.op = "groupLayers" /\ last.res = "ok"
          /\ selectedLayerIds = <<g>>
          /\ UngroupLayers(f, g)
          => Ids(FindFrame(frames', f).layers)
                = Ids(FindFrame(past[Len(past)], f).layers)]_vars

LayerClickSelectsLayer ==
    (bridge.click # NoClick /\ ~commit.pending /\ ~crashed)
    => /\ selectedLayerIds = <<bridge.click.layer>>
       /\ selectedFrameId = bridge.click.frame

\* C40: attempt k of generateImage (k = 1..5) runs with a timeout of 35, 40,
\* 45, 50 and 50 seconds; after a failed attempt k (k = 1..4) the loop waits
\* 1, 2, 4 and 8 seconds before attempt k + 1; nothing is waited for after
\* the 5th attempt
RetrySchedule ==
    LET k == attempt + 1
    IN  /\ pc = "verify" =>
              /\ k \in 1..5
              /\ k = Len(attempts)
              /\ timerMs = <<35000, 40000, 45000, 50000, 50000>>[k]
              /\ timerMs = Min(35000 + 5000 * (k - 1), 50000)
        /\ pc = "backoff" =>
              /\ k \in 1..4
              /\ k = Len(attempts)
              /\ attempts[k] = "rejected"
              /\ timerMs = <<1000, 2000, 4000, 8000>>[k]
              /\ timerMs = Min(1000 * 2^(k - 1), 8000)
        /\ (pc = "done" /\ Len(attempts) = 5) => timerMs = 0

\* the 5th attempt has failed after four waits and the call has ended
RetryScheduleReached ==
    /\ pc = "done"
    /\ Len(attempts) = maxRetries
    /\ attempts[maxRetries] = "rejected"
    /\ result.state = "rejected"
    /\ timerMs = 0

====
